---- MODULE Spec2Model ----
(***************************************************************************)
(* The dentry cache of qlib/kernel/fs/dirent.rs as a state machine.        *)
(*                                                                         *)
(* A Dirent is an Arc<(QMutex<InterDirent>, u64)>.  A node of the model is *)
(* the allocation behind the Arc (Dirent equality is Arc::ptr_eq); the     *)
(* fields of InterDirent are functions over the nodes.  A node is alive    *)
(* while its strong count is positive: while a caller or an open file      *)
(* holds a handle (held), while the mount source pins it (ext), while an   *)
(* operation in progress has a local handle (pins), or while a live child  *)
(* points at it through Parent.  Children holds weak references: an entry  *)
(* is absent, expired (its target was freed) or a live node.               *)
(***************************************************************************)
EXTENDS Integers, Sequences, FiniteSets, TLC

\* ------------------------------------------------------------- bounds
MaxNodes == 4                    \* dirents alive at the same time
MaxOps == 5                      \* operations called in one behaviour
MaxThreads == 2                  \* execution contexts running operations
MaxThreadOps == 3                \* operations the threads call in one behaviour
MaxGateOps == 3                  \* a Rename with failing checks is among the first
MaxSeqNo == 4                    \* a RawTimer's SeqNo stays below this
Threads == 1..MaxThreads
Nodes == 1..MaxNodes
NameOrder == <<"a", "b">>        \* ordinary path components, in BTreeMap order
Names == {NameOrder[i] : i \in 1..Len(NameOrder)}
WalkNames == Names \cup {"", ".", ".."}

\* ------------------------------------------------- values of the model
None == 0                        \* Option::None of Parent / a missing map key
Expired == -1                    \* a Weak whose upgrade() yields None
RootNode == 1                    \* the dirent of the namespace root
NoChildren == [k \in Names |-> None]
EnableInotify == TRUE            \* SHARESPACE.config.read().EnableInotify

\* ---------------------------------------- the backing store (external)
\* Inodes of the backing mounts.  Inode 1 is the root directory of mount
\* source 1; inode 8 is the root directory of mount source 2, the inode
\* handed to Mount; inode 7 is a symbolic link.
Inodes == 1..8
DirInodes == {1, 2, 3, 4, 8}
FileInodes == {5, 6}
SymlinkInodes == {7}
MountSource(i) == IF i = 8 THEN 2 ELSE 1
IsDir(i) == i \in DirInodes
IsSymlink(i) == i \in SymlinkInodes
NoEntries == [k \in Names |-> None]
\* What the backend answers during one operation: whether its lookups fail
\* and whether its create / remove / rename fails (with EIO).
BackendAnswers == [lookupFails : BOOLEAN, opFails : BOOLEAN]
BackendOk == [lookupFails |-> FALSE, opFails |-> FALSE]
LookupAnswers == {be \in BackendAnswers : ~be.opFails}
OpAnswers == {be \in BackendAnswers : ~be.lookupFails}
\* The checks the task's credentials can fail during one operation.
Checks == {"permOld", "permNew", "stickyOld", "permRenamed", "stickyNew"}
TaskAnswers == {{}} \cup {{c} : c \in Checks}
\* The checks in the order Rename makes them, and the credentials that fail
\* every check from some check on.
CheckOrder == <<"permOld", "permNew", "stickyOld", "permRenamed", "stickyNew">>
DenyFrom == {{CheckOrder[j] : j \in i..Len(CheckOrder)} :
                 i \in 1..(Len(CheckOrder) + 1)}

VARIABLES
    Inode,       \* InterDirent.Inode: node -> inode (None for a free node)
    Name,        \* InterDirent.Name
    Parent,      \* InterDirent.Parent: node -> node or None
    Children,    \* InterDirent.Children: node -> name -> None | Expired | node
    mounted,     \* InterDirent.mounted
    alive,       \* nodes whose Arc strong count is positive
    held,        \* node -> a caller or an open file holds a handle
    ext,         \* node -> the mount source holds an extended reference
    store,       \* backing store: directory inode -> name -> inode or None
    fault,       \* "none", or how the kernel stopped: "panic" / "deadlock"
    created,     \* history: node -> Create returned it and its name still stands
    origin,      \* history: mounted node -> the node Mount was called on
    ops,         \* history: how many operations have been called
    before,      \* history: the heap when the operation that ran last began
    last,        \* history: the operation that ran last, its arguments, result
    log,         \* history: backend calls and notifications of that operation
    pc,          \* thread -> where it is in the operation it runs
    loc,         \* thread -> the arguments and the local handle of that operation
    rdlock,      \* RENAME: the threads holding it in read mode
    wrlock,      \* RENAME: the thread holding it in write mode, or None
    step,        \* history: the thread and the kind of the step taken last
    timer        \* a RawTimer, the store's entry for it and the Fire in flight

vars == <<Inode, Name, Parent, Children, mounted, alive, held, ext, store,
          fault, created, origin, ops, before, last, log, pc, loc, rdlock,
          wrlock, step, timer>>

threadVars == <<pc, loc, rdlock, wrlock, step>>

\* The mutable state threaded through one operation.  pins are the nodes a
\* local variable of the running operation holds a handle of.
Heap == [Inode |-> Inode, Name |-> Name, Parent |-> Parent,
         Children |-> Children, mounted |-> mounted, alive |-> alive,
         held |-> held, ext |-> ext, store |-> store, fault |-> fault,
         created |-> created, origin |-> origin, pins |-> {}, log |-> <<>>]

Ret(h, res, node) == [h |-> h, res |-> res, node |-> node]

Pin(h, n) == [h EXCEPT !.pins = @ \cup {n}]

Fail(h, how) == [h EXCEPT !.fault = IF @ = "none" THEN how ELSE @]

\* One entry of the log: a backend call ("call"), a notification ("notify",
\* x the inode of the watch set, y the cookie), a children-map update
\* ("cache") or the drop of a local handle ("drop").
Ev(kind, what, x, nm, y) ==
    [kind |-> kind, what |-> what, x |-> x, nm |-> nm, y |-> y]

Logged(h, e) == [h EXCEPT !.log = Append(@, e)]

\* The value of a function over a one-element set: its body, with the value
\* of an intermediate result bound to a name.
Only(f) == CHOOSE r \in UNION {{g[x] : x \in DOMAIN g} : g \in {f}} : TRUE

\* ------------------------------------------------ reference counting
Referenced(h, n) ==
    \/ h.held[n]
    \/ h.ext[n]
    \/ n \in h.pins
    \/ \E c \in h.alive : h.Parent[c] = n

\* Dirent::RemoveChild: remove the entry under the name, whatever it holds.
RemoveChild(h, p, nm) ==
    IF nm \in Names THEN [h EXCEPT !.Children[p][nm] = None] ELSE h

\* The allocation is freed: every Weak to it stops upgrading.
FreeNode(h, n) ==
    [h EXCEPT !.alive = @ \ {n},
              !.Inode[n] = None, !.Name[n] = "", !.Parent[n] = None,
              !.mounted[n] = FALSE, !.created[n] = FALSE,
              !.origin = [m \in Nodes |-> IF m = n \/ @[m] = n THEN None
                                          ELSE @[m]],
              !.Children = [q \in Nodes |->
                              IF q = n THEN NoChildren
                              ELSE [k \in Names |->
                                      IF h.Children[q][k] = n THEN Expired
                                      ELSE h.Children[q][k]]]]

\* The chain of Parent links above n, n excluded.
RECURSIVE Above(_, _, _)
Above(h, n, fuel) ==
    IF fuel = 0 \/ n = None \/ h.Parent[n] = None THEN {}
    ELSE {h.Parent[n]} \cup Above(h, h.Parent[n], fuel - 1)

\* One of the node locks in locked that forbids taking the lock of x now:
\* the lock of x itself or of a node below x; any lock held when there is
\* none.
HeldLock(h, x, locked) ==
    IF \E l \in locked : l = x \/ x \in Above(h, l, MaxNodes)
    THEN CHOOSE l \in locked : l = x \/ x \in Above(h, l, MaxNodes)
    ELSE CHOOSE l \in locked : TRUE

\* QMutex::lock of node x by a context that holds the node locks in locked:
\* the log keeps the acquisitions made with a lock in hand.
Acquire(h, x, locked) ==
    IF locked = {} THEN h
    ELSE Logged(h, Ev("lock", "acquire", x, "", HeldLock(h, x, locked)))

\* What the drop of the last handle does to the parent's map.
DetachFromParent(h, p, nm, n) == RemoveChild(h, p, nm)

\* impl Drop for Dirent, run when a handle of n goes away while the running
\* context holds the node locks in locked.  Only the drop of the last handle
\* (strong_count == 1) detaches: it takes Parent, removes the entry under the
\* node's name from the parent's map (locking the parent) and lets go of the
\* parent, which may be the parent's last handle in turn.
RECURSIVE DropHandleL(_, _, _)
DropHandleL(heap, n, locked) ==
    Only([h \in {heap} |->
        IF h.fault # "none" \/ n \notin h.alive \/ Referenced(h, n) THEN h
        ELSE LET p == h.Parent[n]
                 nm == h.Name[n]
             IN  IF n \in locked THEN Fail(Acquire(h, n, locked), "deadlock")
                 ELSE IF p = None THEN FreeNode(Acquire(h, n, locked), n)
                 ELSE IF p \in locked
                 THEN Fail(Acquire(Acquire(h, n, locked), p, locked),
                           "deadlock")
                 ELSE Only([g \in {DetachFromParent(
                                       Acquire(Acquire(h, n, locked), p,
                                               locked), p, nm, n)} |->
                              DropHandleL(FreeNode(g, n), p, locked)])])

DropHandle(h, n) == DropHandleL(h, n, {})

\* A local variable goes out of scope.
UnpinL(h, n, locked) == DropHandleL([h EXCEPT !.pins = @ \ {n}], n, locked)
Unpin(h, n) == UnpinL(h, n, {})

\* ------------------------------------------------------ notifications
\* A variant of Notify that queues the event ahead of those already queued.
NotifyAhead(h, ws, nm, ev, cookie) ==
    [h EXCEPT !.log = <<Ev("notify", ev, ws, nm, cookie)>> \o @]

\* Watches().Notify(name, events, cookie) on the watch set of inode ws.
Notify(h, ws, nm, ev, cookie) ==
    IF EnableInotify THEN Logged(h, Ev("notify", ev, ws, nm, cookie)) ELSE h

\* NewInotifyCookie(): a fresh cookie, never 0.
NewInotifyCookie == 1

\* ------------------------------------------------------ the backend
FreeNodes(h) == Nodes \ h.alive
NewNode(h) == CHOOSE n \in FreeNodes(h) : \A m \in FreeNodes(h) : n <= m

\* Dirent::New(inode, name): a fresh allocation with no parent, held by the
\* local variable that receives it.  With every node of the model in use
\* the operation is outside the bound ("bound" disables the action).
DirentNew(heap, inode, nm) ==
    Only([h \in {heap} |->
        IF FreeNodes(h) = {} THEN Ret([h EXCEPT !.fault = "bound"], "EIO", None)
        ELSE Only([n \in {NewNode(h)} |->
                 Ret(Pin([h EXCEPT !.alive = @ \cup {n},
                                   !.Inode[n] = inode, !.Name[n] = nm,
                                   !.Parent[n] = None,
                                   !.Children[n] = NoChildren,
                                   !.mounted[n] = FALSE, !.held[n] = FALSE,
                                   !.ext[n] = FALSE], n),
                     "Ok", n)])])

\* The entry of a directory of the store under a name.
Entry(h, dir, nm) ==
    IF dir \in DirInodes /\ nm \in Names THEN h.store[dir][nm] ELSE None

Called(h, what, dir, nm, y) == Logged(h, Ev("call", what, dir, nm, y))

\* inode.Lookup(task, name): ENOENT when the directory has no such entry,
\* else a new dirent for the inode found.
Lookup(h, dir, nm, be) ==
    Only([h1 \in {Called(h, "Lookup", dir, nm, 0)} |->
        IF be.lookupFails THEN Ret(h1, "EIO", None)
        ELSE IF h1.store[dir][nm] = None THEN Ret(h1, "ENOENT", None)
        ELSE DirentNew(h1, h1.store[dir][nm], nm)])

InodesInUse(h) ==
    {1, 8} \cup {h.Inode[n] : n \in h.alive}
           \cup {h.store[d][k] : d \in DirInodes, k \in Names}

\* A directory the store still has: a mount's root or one with a name.
Linked(h, dir) ==
    dir \in {1, 8} \/ \E d \in DirInodes, k \in Names : h.store[d][k] = dir

FreeInodes(h, kind, ms) ==
    {i \in Inodes \ InodesInUse(h) : i \in kind /\ MountSource(i) = ms}

\* inode.Create / CreateDirectory / CreateLink / CreateFifo / Bind: a new
\* object of the kind under the name; res is the error or "Ok", node the
\* inode made.
BackendCreate(h, what, dir, nm, kind, be) ==
    Only([h1 \in {Called(h, what, dir, nm, 0)} |->
        IF be.opFails THEN Ret(h1, "EIO", None)
        ELSE IF ~IsDir(dir) THEN Ret(h1, "ENOTDIR", None)
        ELSE IF ~Linked(h1, dir) THEN Ret(h1, "ENOENT", None)
        ELSE IF h1.store[dir][nm] # None THEN Ret(h1, "EEXIST", None)
        ELSE Only([free \in {FreeInodes(h1, kind, MountSource(dir))} |->
                 IF free = {} THEN Ret(h1, "ENOSPC", None)
                 ELSE Only([i \in {CHOOSE i \in free : \A j \in free : i <= j}
                              |-> Ret([h1 EXCEPT !.store[dir][nm] = i],
                                      "Ok", i)])])])

\* inode.CreateHardLink: a second name for the target's inode.
BackendLink(h, dir, nm, target, be) ==
    Only([h1 \in {Called(h, "CreateHardLink", dir, nm, target)} |->
        IF be.opFails THEN Ret(h1, "EIO", None)
        ELSE IF ~IsDir(dir) THEN Ret(h1, "ENOTDIR", None)
        ELSE IF ~Linked(h1, dir) THEN Ret(h1, "ENOENT", None)
        ELSE IF h1.store[dir][nm] # None THEN Ret(h1, "EEXIST", None)
        ELSE Ret([h1 EXCEPT !.store[dir][nm] = target], "Ok", target)])

\* inode.Remove: a directory must be empty.
BackendRemove(h, dir, nm, be) ==
    Only([h1 \in {Called(h, "Remove", dir, nm, 0)} |->
        LET i == Entry(h1, dir, nm)
        IN  IF be.opFails THEN Ret(h1, "EIO", None)
            ELSE IF i = None THEN Ret(h1, "ENOENT", None)
            ELSE IF IsDir(i) /\ h1.store[i] # NoEntries
                 THEN Ret(h1, "ENOTEMPTY", None)
            ELSE Ret([h1 EXCEPT !.store[dir][nm] = None], "Ok", i)])

\* The directory inodes of the subtree the store keeps under directory i.
RECURSIVE StoreSubtree(_, _, _)
StoreSubtree(h, i, fuel) ==
    IF fuel = 0 \/ ~IsDir(i) THEN {i}
    ELSE {i} \cup UNION {StoreSubtree(h, h.store[i][k], fuel - 1) :
                           k \in {k \in Names : h.store[i][k] # None}}

\* inode.Rename(oldParent, renamed, newParent, newName, replacement): moves
\* the entry, replacing a file or an empty directory at the destination.
BackendRename(h, odir, onm, ndir, nnm, exist, be) ==
    Only([h1 \in {Called(h, "Rename", ndir, nnm, IF exist THEN 1 ELSE 0)} |->
        LET i == Entry(h1, odir, onm)
            t == Entry(h1, ndir, nnm)
        IN  IF be.opFails THEN Ret(h1, "EIO", None)
            ELSE IF i = None \/ ~IsDir(ndir) \/ ~Linked(h1, ndir)
                 THEN Ret(h1, "ENOENT", None)
            ELSE IF IsDir(i)
                    /\ ndir \in StoreSubtree(h1, i, Cardinality(DirInodes))
                 THEN Ret(h1, "EINVAL", None)
            ELSE IF t # None /\ IsDir(t) /\ h1.store[t] # NoEntries
                 THEN Ret(h1, "ENOTEMPTY", None)
            ELSE Ret([h1 EXCEPT !.store = [[@ EXCEPT ![odir][onm] = None]
                                              EXCEPT ![ndir][nnm] = i]],
                     "Ok", i)])

\* inode.CheckPermission / the credentials checkSticky reads.
CheckPermission(deny, check) == IF check \in deny THEN "EACCES" ELSE "Ok"

\* -------------------------------------------------------------- walk
GetCacheChild(h, n, nm) ==
    IF h.Children[n][nm] \in h.alive THEN h.Children[n][nm] ELSE None

\* Dirent::addChild: the child must already belong to the parent.
addChild(h, p, nm, c) ==
    IF h.Parent[c] # p THEN Fail(h, "panic")
    ELSE Logged([h EXCEPT !.Children[p][nm] = c], Ev("cache", "insert", p, nm, c))

\* A variant of AddChild without the assertion that the child has no parent.
AddChildUnchecked(h, p, nm, c) == addChild([h EXCEPT !.Parent[c] = p], p, nm, c)

\* Dirent::AddChild: the child must have no parent; sets it, then addChild.
AddChild(h, p, nm, c) ==
    IF h.Parent[c] # None THEN Fail(h, "panic")
    ELSE addChild([h EXCEPT !.Parent[c] = p], p, nm, c)

\* A variant of walk that returns what the backend's lookup found without
\* putting it into the children map.
walkNoInsert(h, n, root, nm, be) ==
    IF ~IsDir(h.Inode[n]) THEN Ret(h, "ENOTDIR", None)
    ELSE IF nm \in {"", "."} THEN Ret(Pin(h, n), "Ok", n)
    ELSE IF nm = ".."
    THEN IF n = root THEN Ret(Pin(h, n), "Ok", n)
         ELSE IF h.Parent[n] = None THEN Ret(Pin(h, n), "Ok", n)
         ELSE Ret(Pin(h, h.Parent[n]), "Ok", h.Parent[n])
    ELSE LET cd == GetCacheChild(h, n, nm)
         IN  IF cd # None
             THEN Ret(Pin(h, cd), "Ok", cd)
             ELSE Lookup(RemoveChild(h, n, nm), h.Inode[n], nm, be)

\* Dirent::walk.  The result holds a handle (a pin) of the node returned.
walk(h, n, root, nm, be) ==
    IF ~IsDir(h.Inode[n]) THEN Ret(h, "ENOTDIR", None)
    ELSE IF nm \in {"", "."} THEN Ret(Pin(h, n), "Ok", n)
    ELSE IF nm = ".."
    THEN IF n = root THEN Ret(Pin(h, n), "Ok", n)
         ELSE IF h.Parent[n] = None THEN Ret(Pin(h, n), "Ok", n)
         ELSE Ret(Pin(h, h.Parent[n]), "Ok", h.Parent[n])
    ELSE LET cd == GetCacheChild(h, n, nm)
         IN  IF cd # None
             THEN Ret(Pin(h, cd), "Ok", cd)   \* mounted || !revalidate
             ELSE Only([lk \in {Lookup(RemoveChild(h, n, nm), h.Inode[n], nm,
                                       be)} |->
                      IF lk.res # "Ok" THEN lk
                      ELSE Ret(AddChild(lk.h, n, nm, lk.node), "Ok", lk.node)])

\* A variant of exists that never finds the name.
existsNever(h, n, root, nm, be) == Ret(h, "No", None)

\* Dirent::exists: any error of walk counts as "does not exist"; the dirent
\* walk returned is dropped at once.
exists(h, n, root, nm, be) ==
    Only([w \in {walk(h, n, root, nm, be)} |->
        IF w.res = "Ok" THEN Ret(Unpin(w.h, w.node), "Ok", w.node)
        ELSE Ret(w.h, "No", None)])

\* ------------------------------------------------ extended references
\* Dirent::ExtendReference: pinned when the mount source's Keep says so.
ExtendReference(h, n, keep) == IF keep THEN [h EXCEPT !.ext[n] = TRUE] ELSE h

\* Dirent::DropExtendedReference.  The caller still holds its own handle.
DropExtendedReference(h, n) == [h EXCEPT !.ext[n] = FALSE]

\* The Arc that Weak::upgrade returned goes out of scope.  It is not a
\* Dirent, so impl Drop for Dirent does not run for it: when it was the last
\* owner the allocation is freed with its entry left in the parent's map,
\* and the handle the node held of its parent goes away with it.
DropArcL(heap, n, locked) ==
    Only([h \in {[heap EXCEPT !.pins = @ \ {n}]} |->
        IF h.fault # "none" \/ n \notin h.alive \/ Referenced(h, n) THEN h
        ELSE IF h.Parent[n] = None THEN FreeNode(h, n)
        ELSE DropHandleL(FreeNode(h, n), h.Parent[n], locked)])

\* A variant of DropExtendedReferenceUnder that leaves the extended
\* reference in place.
KeepExtendedReferenceUnder(h, e, lock) ==
    Logged(h, Ev("policy", "DropExtendReference", e, "", lock))

\* DropExtendedReference of node e by a context that holds the lock of the
\* node lock (None: no node lock): the call into the mount source's
\* reference policy is logged with the lock it is made under.
DropExtendedReferenceUnder(h, e, lock) ==
    DropExtendedReference(Logged(h, Ev("policy", "DropExtendReference", e, "",
                                       lock)), e)

\* Dirent::flush.  The lock of n is held for the whole loop.  A live child
\* is held by the upgraded Arc cd and by the Dirent made of its clone; the
\* Dirent is dropped first (never as the last owner), then cd.
RECURSIVE flushFrom(_, _, _, _)
RECURSIVE flush(_, _, _)
flushFrom(heap, n, i, locked) ==
    Only([h \in {heap} |->
        IF h.fault # "none" \/ i > Len(NameOrder) THEN h
        ELSE LET k == NameOrder[i]
                 e == h.Children[n][k]
             IN  IF e = None THEN flushFrom(h, n, i + 1, locked)
                 ELSE IF e \notin h.alive
                 THEN flushFrom([h EXCEPT !.Children[n][k] = None], n, i + 1,
                                locked)
                 ELSE IF e \in h.pins
                 THEN Only([h1 \in {flush(h, e, locked)} |->
                          flushFrom(IF h1.fault # "none" THEN h1
                                    ELSE DropExtendedReferenceUnder(h1, e, n),
                                    n, i + 1, locked)])
                 ELSE Only([h1 \in {flush(Pin(h, e), e, locked)} |->
                          flushFrom(IF h1.fault # "none" THEN h1
                                    ELSE DropArcL(
                                             DropExtendedReferenceUnder(h1, e,
                                                                        n),
                                             e, locked),
                                    n, i + 1, locked)])])

flush(h, n, locked) ==
    IF n \in locked THEN Fail(Acquire(h, n, locked), "deadlock")
    ELSE flushFrom(Acquire(h, n, locked), n, 1, locked \cup {n})

\* ------------------------------------------------------- path names
Ancestors(h, n) ==
    LET up[i \in 0..MaxNodes] ==
            IF i = 0 THEN {n}
            ELSE Only([s \in {up[i - 1]} |->
                         s \cup ({h.Parent[c] : c \in s} \ {None})])
    IN  up[MaxNodes]

\* Dirent::DescendantOf: p is d or is on d's chain of Parent links.
DescendantOf(h, d, p) == p \in Ancestors(h, d)

\* Dirent::fullName: <<name, whether root is reachable from n>>.
RECURSIVE fullName(_, _, _)
fullName(h, n, root) ==
    IF n = root THEN <<"/", TRUE>>
    ELSE IF h.Parent[n] = None THEN <<h.Name[n], FALSE>>
    ELSE Only([pn \in {fullName(h, h.Parent[n], root)} |->
             IF pn[1] = "/" THEN <<pn[1] \o h.Name[n], pn[2]>>
             ELSE <<pn[1] \o "/" \o h.Name[n], pn[2]>>])

RECURSIVE MountRoot(_, _)
\* A variant of MountRoot that walks up to the node with no parent whatever
\* is mounted on the way.
MountRootTop(h, n) == CHOOSE r \in Ancestors(h, n) : h.Parent[r] = None

\* Dirent::MountRoot.
MountRoot(h, n) ==
    IF h.mounted[n] \/ h.Parent[n] = None THEN n ELSE MountRoot(h, h.Parent[n])

\* A variant of IsMountPoint that looks at the parent only and ignores the
\* mounted flag.
IsMountPointUnmounted(h, n) == h.Parent[n] = None

\* Dirent::IsMountPoint.
IsMountPoint(h, n) == h.mounted[n] \/ h.Parent[n] = None

\* ------------------------------------------------------- small helpers
\* Local handles go out of scope, in the order given.
RECURSIVE UnpinSeq(_, _)
UnpinSeq(h, ns) ==
    IF ns = <<>> THEN h ELSE UnpinSeq(Unpin(h, Head(ns)), Tail(ns))

\* The name (p, nm) stops standing for the node Create returned under it.
ClearCreated(h, p, nm) ==
    [h EXCEPT !.created = [c \in Nodes |->
                             @[c] /\ ~(h.Parent[c] = p /\ h.Name[c] = nm)]]

DirFlag(h, n, ev) == IF IsDir(h.Inode[n]) THEN "IN_ISDIR|" \o ev ELSE ev

\* ------------------------------------------------------ may delete
\* Dirent::checkSticky: the answer of the credentials (EPERM when denied).
checkSticky(deny, check) == IF check \in deny THEN "EPERM" ELSE "Ok"

\* Dirent::mayDelete.
mayDelete(h, deny, check, victim) ==
    IF checkSticky(deny, check) # "Ok" THEN "EPERM"
    ELSE IF h.Parent[victim] = None THEN "EBUSY"
    ELSE "Ok"

\* What the task and the backend answer to the checks of one MayDelete:
\* the permission check on the directory, whether UnstableAttr of the
\* directory and of the victim can be read, the directory's sticky bit,
\* whether the task's effective uid owns the directory or the victim, and
\* whether it holds CAP_FOWNER.
DeleteAnswers ==
    [perm : BOOLEAN, dirAttr : BOOLEAN, sticky : BOOLEAN, ownsDir : BOOLEAN,
     victimAttr : BOOLEAN, ownsVictim : BOOLEAN, fowner : BOOLEAN]

\* A variant of checkStickyAttrs that does not ask for the capability.
checkStickyNoCapability(cr) ==
    IF ~cr.dirAttr THEN "EPERM"
    ELSE IF ~cr.sticky THEN "Ok"
    ELSE IF cr.ownsDir THEN "Ok"
    ELSE IF ~cr.victimAttr THEN "EPERM"
    ELSE IF cr.ownsVictim THEN "Ok"
    ELSE "EPERM"

\* Dirent::checkSticky, test by test.
checkStickyAttrs(cr) ==
    IF ~cr.dirAttr THEN "EPERM"
    ELSE IF ~cr.sticky THEN "Ok"
    ELSE IF cr.ownsDir THEN "Ok"
    ELSE IF ~cr.victimAttr THEN "EPERM"
    ELSE IF cr.ownsVictim THEN "Ok"
    ELSE IF cr.fowner THEN "Ok"
    ELSE "EPERM"

\* Dirent::MayDelete.
MayDelete(h, self, root, nm, cr, be) ==
    IF CheckPermission(IF cr.perm THEN {} ELSE {"permOld"}, "permOld") # "Ok"
    THEN Ret(h, CheckPermission({"permOld"}, "permOld"), None)
    ELSE Only([w \in {walk(h, self, root, nm, be)} |->
        IF w.res # "Ok" THEN Ret(w.h, w.res, None)
        ELSE Ret(Unpin(w.h, w.node),
                 mayDelete(w.h,
                           IF checkStickyAttrs(cr) = "Ok" THEN {}
                           ELSE {"stickyOld"},
                           "stickyOld", w.node),
                 w.node)])

\* ------------------------------------------------------ create family
\* Dirent::Create.
Create(h, self, root, nm, be, keep) ==
    Only([e \in {exists(h, self, root, nm, be)} |->
        IF e.res = "Ok" THEN Ret(e.h, "EEXIST", None)
        ELSE Only([bc \in {BackendCreate(e.h, "Create", h.Inode[self], nm,
                                         FileInodes, be)} |->
            IF bc.res # "Ok" THEN bc
            ELSE Only([dn \in {DirentNew(bc.h, bc.node, nm)} |->
                LET h1 == AddChild(dn.h, self, nm, dn.node)
                    h2 == ExtendReference(h1, dn.node, keep)
                    h3 == Notify(h2, h.Inode[self], nm, "IN_CREATE", 0)
                IN  IF dn.res # "Ok" THEN dn
                    ELSE Ret([h3 EXCEPT !.created[dn.node] = TRUE],
                             "Ok", dn.node)])])])

\* Dirent::genericCreate, up to the call of the create closure.
genericCreate(h, self, root, nm, be) ==
    Only([e \in {exists(h, self, root, nm, be)} |->
        IF e.res = "Ok" THEN Ret(e.h, "EEXIST", None)
        ELSE Ret(RemoveChild(e.h, self, nm), "Ok", None)])

\* Dirent::CreateDirectory.
CreateDirectory(h, self, root, nm, be) ==
    Only([g \in {genericCreate(h, self, root, nm, be)} |->
        IF g.res # "Ok" THEN g
        ELSE Only([ret \in {BackendCreate(g.h, "CreateDirectory",
                                          h.Inode[self], nm, DirInodes, be)} |->
            LET h1 == Notify(ret.h, h.Inode[self], nm,
                             "IN_ISDIR|IN_CREATE", 0)
            IN  Ret(RemoveChild(h1, self, nm), ret.res, None)])])

\* Dirent::CreateLink.
CreateLink(h, self, root, oldname, newname, be) ==
    Only([g \in {genericCreate(h, self, root, newname, be)} |->
        IF g.res # "Ok" THEN g
        ELSE Only([ret \in {BackendCreate(g.h, "CreateLink", h.Inode[self],
                                          newname, SymlinkInodes, be)} |->
            IF ret.res # "Ok" THEN Ret(ret.h, ret.res, None)
            ELSE LET h1 == Notify(ret.h, h.Inode[self], newname,
                                  "IN_CREATE", 0)
                     h2 == RemoveChild(h1, self, oldname)
                 IN  Ret(RemoveChild(h2, self, newname), "Ok", None)])])

\* A variant of hardLinkChecks that looks at the directory first.
hardLinkChecksSwapped(h, self, target) ==
    IF IsDir(h.Inode[target]) THEN "EPERM"
    ELSE IF MountSource(h.Inode[self]) # MountSource(h.Inode[target]) THEN "EXDEV"
    ELSE "Ok"

\* The two checks CreateHardLink makes before anything else: both inodes on
\* one mount source, and the target not a directory.
hardLinkChecks(h, self, target) ==
    IF MountSource(h.Inode[self]) # MountSource(h.Inode[target]) THEN "EXDEV"
    ELSE IF IsDir(h.Inode[target]) THEN "EPERM"
    ELSE "Ok"

\* Dirent::CreateHardLink.
CreateHardLink(h, self, root, target, nm, be) ==
    IF hardLinkChecks(h, self, target) # "Ok"
    THEN Ret(h, hardLinkChecks(h, self, target), None)
    ELSE Only([g \in {genericCreate(h, self, root, nm, be)} |->
        IF g.res # "Ok" THEN g
        ELSE Only([ret \in {BackendLink(g.h, h.Inode[self], nm,
                                        h.Inode[target], be)} |->
            IF ret.res # "Ok" THEN Ret(ret.h, ret.res, None)
            ELSE LET h1 == RemoveChild(ret.h, self, nm)
                     h2 == Notify(h1, h.Inode[target], nm, "IN_ATTRIB", 0)
                 IN  Ret(Notify(h2, h.Inode[self], nm, "IN_CREATE", 0),
                         "Ok", None)])])

\* Dirent::CreateFifo.
CreateFifo(h, self, root, nm, be) ==
    Only([g \in {genericCreate(h, self, root, nm, be)} |->
        IF g.res # "Ok" THEN g
        ELSE Only([ret \in {BackendCreate(g.h, "CreateFifo", h.Inode[self],
                                          nm, FileInodes, be)} |->
            IF ret.res # "Ok" THEN Ret(ret.h, ret.res, None)
            ELSE Ret(Notify(RemoveChild(ret.h, self, nm), h.Inode[self],
                            nm, "IN_CREATE", 0), "Ok", None)])])

\* Dirent::Bind.  The closure's childDir is dropped when the closure ends;
\* the dirent returned comes from a second backend lookup.
Bind(h, self, root, nm, be, keep) ==
    Only([g \in {genericCreate(h, self, root, nm, be)} |->
        IF g.res = "EEXIST" THEN Ret(g.h, "EADDRINUSE", None)
        ELSE Only([ret \in {BackendCreate(g.h, "Bind", h.Inode[self], nm,
                                          FileInodes, be)} |->
            IF ret.res = "EEXIST" THEN Ret(ret.h, "EADDRINUSE", None)
            ELSE IF ret.res # "Ok" THEN Ret(ret.h, ret.res, None)
            ELSE Only([dn \in {DirentNew(ret.h, ret.node, nm)} |->
                IF dn.res # "Ok" THEN dn
                ELSE LET h1 == AddChild(dn.h, self, nm, dn.node)
                         h2 == Unpin(ExtendReference(h1, dn.node, keep),
                                     dn.node)
                     IN  Only([lk \in {Lookup(h2, h.Inode[self], nm, be)} |->
                             IF lk.res # "Ok" THEN lk
                             ELSE Ret(Notify(lk.h, h.Inode[self], nm,
                                             "IN_CREATE", 0),
                                      "Ok", lk.node)])])])])

\* ------------------------------------------------------ remove family
\* A variant of removeBackend that does not look for a mount point.
removeBackendOverMount(h, self, nm, child, dirPath, be) ==
    IF IsDir(h.Inode[child]) \/ dirPath
    THEN Ret(Unpin(h, child), "EISDIR", child)
    ELSE Only([br \in {BackendRemove(h, h.Inode[self], nm, be)} |->
             IF br.res # "Ok" THEN Ret(Unpin(br.h, child), br.res, child)
             ELSE Ret(br.h, "Ok", child)])

\* Dirent::Remove after Walk has returned the child (lines 714-727): the
\* checks and the backend's remove.
removeBackend(h, self, nm, child, dirPath, be) ==
    IF IsDir(h.Inode[child]) \/ dirPath
    THEN Ret(Unpin(h, child), "EISDIR", child)
    ELSE IF IsMountPoint(h, child)
    THEN Ret(Unpin(h, child), "EBUSY", child)
    ELSE Only([br \in {BackendRemove(h, h.Inode[self], nm, be)} |->
             IF br.res # "Ok" THEN Ret(Unpin(br.h, child), br.res, child)
             ELSE Ret(br.h, "Ok", child)])

\* Dirent::Remove after the backend has removed (lines 729-754).
removeCache(h, self, nm, child) ==
    LET ci == h.Inode[child]
        h1 == Notify(h, ci, "", "IN_ATTRIB", 0)
        h2 == Logged(RemoveChild(ClearCreated(h1, self, nm), self, nm),
                     Ev("cache", "remove", self, nm, 0))
        h3 == Logged(DropExtendedReference(h2, child),
                     Ev("unpin", "DropExtendedReference", child, "", 0))
        h4 == Unpin(Logged([h3 EXCEPT !.created[child] = FALSE],
                           Ev("drop", "child", child, "", 0)),
                    child)
    IN  Ret(Notify(h4, h.Inode[self], nm, "IN_DELETE", 0), "Ok", child)

\* Dirent::Remove.
Remove(h, self, root, nm, dirPath, be) ==
    Only([w \in {walk(h, self, root, nm, be)} |->
        IF w.res # "Ok" THEN Ret(w.h, w.res, None)
        ELSE Only([b \in {removeBackend(w.h, self, nm, w.node, dirPath, be)}
                     |-> IF b.res # "Ok" THEN b
                         ELSE removeCache(b.h, self, nm, w.node)])])

\* Dirent::RemoveDirectory.
RemoveDirectory(h, self, root, nm, be) ==
    IF nm = "." THEN Ret(h, "EINVAL", None)
    ELSE IF nm = ".." THEN Ret(h, "ENOTEMPTY", None)
    ELSE Only([w \in {walk(h, self, root, nm, be)} |->
        LET child == w.node
        IN  IF w.res # "Ok" THEN Ret(w.h, w.res, None)
            ELSE IF ~IsDir(w.h.Inode[child])
            THEN Ret(Unpin(w.h, child), "ENOTDIR", child)
            ELSE IF IsMountPoint(w.h, child)
            THEN Ret(Unpin(w.h, child), "EBUSY", child)
            ELSE Only([br \in {BackendRemove(w.h, h.Inode[self], nm, be)} |->
                IF br.res # "Ok"
                THEN Ret(Unpin(br.h, child), br.res, child)
                ELSE LET h2 == Logged(RemoveChild(
                                         ClearCreated(br.h, self, nm),
                                         self, nm),
                                      Ev("cache", "remove", self, nm, 0))
                         h3 == DropExtendedReference(h2, child)
                         h4 == Notify(h3, h.Inode[self], nm,
                                      "IN_ISDIR|IN_DELETE", 0)
                     IN  Ret(Unpin([h4 EXCEPT !.created[child] = FALSE],
                                   child), "Ok", child)])])

\* ------------------------------------------------------------ rename
\* A variant of resolveDestination that replaces whatever it finds, a
\* directory by a file and a file by a directory included.
resolveDestinationAnyKind(h, root, newParent, newName, renamed, deny, be) ==
    Only([w \in {walk(h, newParent, root, newName, be)} |->
        LET replaced == w.node
        IN  IF w.res = "ENOENT" THEN Ret(w.h, "Ok", 0)
            ELSE IF w.res # "Ok" THEN Ret(w.h, w.res, 0)
            ELSE IF mayDelete(w.h, deny, "stickyNew", replaced) # "Ok"
            THEN Ret(Unpin(w.h, replaced),
                     mayDelete(w.h, deny, "stickyNew", replaced), 0)
            ELSE IF IsMountPoint(w.h, replaced)
            THEN Ret(Unpin(w.h, replaced), "EBUSY", 0)
            ELSE Only([h1 \in {flush(DropExtendedReference(w.h, replaced),
                                     replaced, {})} |->
                     IF h1.fault # "none" THEN Ret(h1, "fault", 0)
                     ELSE Ret(Unpin(h1, replaced), "Ok", 1)])])

\* The match on newParent.walk(newName) of Rename and renameOfOneDirent:
\* res is "Ok" or the error returned, node is 1 when a node was replaced.
resolveDestination(h, root, newParent, newName, renamed, deny, be) ==
    Only([w \in {walk(h, newParent, root, newName, be)} |->
        LET replaced == w.node
            oldIsDir == IsDir(h.Inode[renamed])
        IN  IF w.res = "ENOENT" THEN Ret(w.h, "Ok", 0)
            ELSE IF w.res # "Ok" THEN Ret(w.h, w.res, 0)
            ELSE IF mayDelete(w.h, deny, "stickyNew", replaced) # "Ok"
            THEN Ret(Unpin(w.h, replaced),
                     mayDelete(w.h, deny, "stickyNew", replaced), 0)
            ELSE IF IsMountPoint(w.h, replaced)
            THEN Ret(Unpin(w.h, replaced), "EBUSY", 0)
            ELSE IF ~IsDir(w.h.Inode[replaced]) /\ oldIsDir
            THEN Ret(Unpin(w.h, replaced), "ENOTDIR", 0)
            ELSE IF IsDir(w.h.Inode[replaced]) /\ ~oldIsDir
            THEN Ret(Unpin(w.h, replaced), "EISDIR", 0)
            ELSE Only([h1 \in {flush(DropExtendedReference(w.h, replaced),
                                     replaced, {})} |->
                     IF h1.fault # "none" THEN Ret(h1, "fault", 0)
                     ELSE Ret(Unpin(h1, replaced), "Ok", 1)])])

\* A variant of renameRemove that leaves the entry under the old name.
renameRemoveNewOnly(h, oldParent, oldName, newParent, newName) ==
    RemoveChild(h, newParent, newName)

\* The entries Rename takes out of the children maps once the backend has
\* renamed (lines 909-910 and 1026).
renameRemove(h, oldParent, oldName, newParent, newName) ==
    RemoveChild(RemoveChild(h, newParent, newName), oldParent, oldName)

\* A variant of renameInsert that leaves the new parent's map as it is.
renameInsertNothing(h, newParent, newName, renamed) ==
    Logged(h, Ev("cache", "insert", newParent, newName, renamed))

\* The entry Rename puts in (lines 912-916 and 1027-1028).
renameInsert(h, newParent, newName, renamed) ==
    Logged([h EXCEPT !.Children[newParent][newName] = renamed],
           Ev("cache", "insert", newParent, newName, renamed))

\* A variant of renameDetach that writes the new name before it looks at
\* the backend's answer.
renameDetachEarly(h, oldParent, oldName, newParent, newName, renamed, exist, be) ==
    Only([br \in {BackendRename(h, h.Inode[oldParent], h.Name[renamed],
                                h.Inode[newParent], newName, exist, be)} |->
        LET g1 == ClearCreated(ClearCreated(br.h, oldParent, oldName),
                               newParent, newName)
            h1 == [g1 EXCEPT !.created[renamed] = FALSE,
                             !.Name[renamed] = newName]
        IN  IF br.res # "Ok"
            THEN Ret(Unpin([br.h EXCEPT !.Name[renamed] = newName], renamed),
                     br.res, renamed)
            ELSE Ret(renameRemove(h1, oldParent, oldName, newParent, newName),
                     "Ok", renamed)])

\* Lines 906-910 and 1021-1026: the backend's rename, the new name, the
\* entries taken out.  The renamed node is in no children map afterwards.
renameDetach(h, oldParent, oldName, newParent, newName, renamed, exist, be) ==
    Only([br \in {BackendRename(h, h.Inode[oldParent], h.Name[renamed],
                                h.Inode[newParent], newName, exist, be)} |->
        IF br.res # "Ok" THEN Ret(Unpin(br.h, renamed), br.res, renamed)
        ELSE LET g1 == ClearCreated(ClearCreated(br.h, oldParent, oldName),
                                    newParent, newName)
                 h1 == [g1 EXCEPT !.created[renamed] = FALSE,
                                  !.Name[renamed] = newName]
             IN  Ret(renameRemove(h1, oldParent, oldName, newParent, newName),
                     "Ok", renamed)])

\* Lines 912-949 and 1027-1059: the entry put in, the notifications, the
\* final flush.  The same-parent path still holds the parent's lock during
\* the flush.
renameAttach(h, oldParent, oldName, newParent, newName, renamed) ==
    LET h3 == renameInsert(h, newParent, newName, renamed)
        locked == IF oldParent = newParent THEN {oldParent} ELSE {}
        cookie == NewInotifyCookie
        h4 == Notify(h3, h.Inode[oldParent], oldName,
                     DirFlag(h, renamed, "IN_MOVED_FROM"), cookie)
        h5 == Notify(h4, h.Inode[newParent], newName,
                     DirFlag(h, renamed, "IN_MOVED_TO"), cookie)
        h6 == Notify(h5, h.Inode[renamed], "", "IN_MOVE_SELF", 0)
    IN  Only([h7 \in {flush(DropExtendedReferenceUnder(
                                h6, renamed,
                                IF oldParent = newParent THEN oldParent
                                ELSE None), renamed, locked)} |->
            IF h7.fault # "none" THEN Ret(h7, "fault", renamed)
            ELSE Ret(Unpin(h7, renamed), "Ok", renamed)])

\* Lines 906-949 and 1021-1059.
renameCommit(h, oldParent, oldName, newParent, newName, renamed, exist, be) ==
    Only([d \in {renameDetach(h, oldParent, oldName, newParent, newName,
                              renamed, exist, be)} |->
        IF d.res # "Ok" THEN d
        ELSE renameAttach(d.h, oldParent, oldName, newParent, newName,
                          renamed)])

\* A variant of renameSource that looks at the mount boundary before the
\* may-delete check.
renameSourceMount(h, root, oldParent, oldName, newParent, deny, be, cross) ==
    Only([w \in {walk(h, oldParent, root, oldName, be)} |->
        LET renamed == w.node
        IN  IF w.res # "Ok" THEN Ret(w.h, w.res, None)
            ELSE IF IsMountPoint(w.h, renamed)
            THEN Ret(Unpin(w.h, renamed), "EBUSY", renamed)
            ELSE IF mayDelete(w.h, deny, "stickyOld", renamed) # "Ok"
            THEN Ret(Unpin(w.h, renamed),
                     mayDelete(w.h, deny, "stickyOld", renamed), renamed)
            ELSE IF cross /\ DescendantOf(w.h, newParent, renamed)
            THEN Ret(Unpin(w.h, renamed), "EINVAL", renamed)
            ELSE IF IsDir(w.h.Inode[renamed])
                    /\ CheckPermission(deny, "permRenamed") # "Ok"
            THEN Ret(Unpin(w.h, renamed), "EACCES", renamed)
            ELSE Ret(w.h, "Ok", renamed)])

\* Lines 852-873 and 970-988: resolve the renamed node and check it.
renameSource(h, root, oldParent, oldName, newParent, deny, be, cross) ==
    Only([w \in {walk(h, oldParent, root, oldName, be)} |->
        LET renamed == w.node
        IN  IF w.res # "Ok" THEN Ret(w.h, w.res, None)
            ELSE IF mayDelete(w.h, deny, "stickyOld", renamed) # "Ok"
            THEN Ret(Unpin(w.h, renamed),
                     mayDelete(w.h, deny, "stickyOld", renamed), renamed)
            ELSE IF IsMountPoint(w.h, renamed)
            THEN Ret(Unpin(w.h, renamed), "EBUSY", renamed)
            ELSE IF cross /\ DescendantOf(w.h, newParent, renamed)
            THEN Ret(Unpin(w.h, renamed), "EINVAL", renamed)
            ELSE IF IsDir(w.h.Inode[renamed])
                    /\ CheckPermission(deny, "permRenamed") # "Ok"
            THEN Ret(Unpin(w.h, renamed), "EACCES", renamed)
            ELSE Ret(w.h, "Ok", renamed)])

\* Dirent::renameOfOneDirent.
renameOfOneDirent(h, root, parent, oldName, newName, deny, be) ==
    IF CheckPermission(deny, "permOld") # "Ok" THEN Ret(h, "EACCES", None)
    ELSE Only([s \in {renameSource(h, root, parent, oldName, parent, deny,
                                   be, FALSE)} |->
        IF s.res # "Ok" THEN s
        ELSE Only([d \in {resolveDestination(s.h, root, parent, newName,
                                             s.node, deny, be)} |->
            IF d.res = "fault" THEN Ret(d.h, "fault", s.node)
            ELSE IF d.res # "Ok" THEN Ret(Unpin(d.h, s.node), d.res, s.node)
            ELSE renameCommit(d.h, parent, oldName, parent, newName,
                              s.node, d.node = 1, be)])])

\* The loop of lines 815-830: some node on the chain from newParent upward
\* has oldParent as its parent and oldName as its name.
CycleCheck(h, oldParent, oldName, newParent) ==
    \E c \in Ancestors(h, newParent) :
        h.Parent[c] = oldParent /\ h.Name[c] = oldName

\* Dirent::Rename between two parents up to the backend's rename (lines
\* 815-904): node is the renamed node, exist whether the destination had one.
renameGates(h, root, oldParent, oldName, newParent, newName, deny, be) ==
    LET fail(g, res, n) == [h |-> g, res |-> res, node |-> n, exist |-> FALSE]
    IN  IF CycleCheck(h, oldParent, oldName, newParent)
        THEN fail(h, "EINVAL", None)
        ELSE IF CheckPermission(deny, "permOld") # "Ok"
        THEN fail(h, "EACCES", None)
        ELSE IF CheckPermission(deny, "permNew") # "Ok"
        THEN fail(h, "EACCES", None)
        ELSE Only([s \in {renameSource(h, root, oldParent, oldName,
                                       newParent, deny, be, TRUE)} |->
            IF s.res # "Ok" THEN fail(s.h, s.res, s.node)
            ELSE Only([d \in {resolveDestination(s.h, root, newParent,
                                                 newName, s.node, deny, be)}
                         |->
                IF d.res = "fault" THEN fail(d.h, "fault", s.node)
                ELSE IF d.res # "Ok"
                THEN fail(Unpin(d.h, s.node), d.res, s.node)
                ELSE [h |-> d.h, res |-> "Ok", node |-> s.node,
                      exist |-> d.node = 1]])])

\* Dirent::Rename (under RENAME.write()).
Rename(h, root, oldParent, oldName, newParent, newName, deny, be) ==
    IF oldParent = newParent
    THEN IF oldName = newName THEN Ret(h, "Ok", None)
         ELSE renameOfOneDirent(h, root, oldParent, oldName, newName, deny, be)
    ELSE Only([g \in {renameGates(h, root, oldParent, oldName, newParent,
                                  newName, deny, be)} |->
             IF g.res # "Ok" THEN Ret(g.h, g.res, g.node)
             ELSE renameCommit(g.h, oldParent, oldName, newParent, newName,
                               g.node, g.exist, be)])

\* ------------------------------------------------------------- mount
\* A variant of Mount whose new node does not get the mounted flag.
MountUnmarked(h, self, inode) ==
    IF IsSymlink(inode) THEN Ret(h, "ENOENT", None)
    ELSE IF h.Parent[self] = None THEN Ret(Fail(h, "panic"), "fault", None)
    ELSE Only([dn \in {DirentNew(h, inode, h.Name[self])} |->
        LET m == dn.node
            h1 == [dn.h EXCEPT !.origin[m] = self]
            h2 == AddChild(ClearCreated(h1, h.Parent[self], h.Name[self]),
                           h.Parent[self], h.Name[self], m)
        IN  IF dn.res # "Ok" THEN dn ELSE Ret(h2, "Ok", m)])

\* Dirent::Mount.
Mount(h, self, inode) ==
    IF IsSymlink(inode) THEN Ret(h, "ENOENT", None)
    ELSE IF h.Parent[self] = None THEN Ret(Fail(h, "panic"), "fault", None)
    ELSE Only([dn \in {DirentNew(h, inode, h.Name[self])} |->
        LET m == dn.node
            h1 == [dn.h EXCEPT !.mounted[m] = TRUE, !.origin[m] = self]
            h2 == AddChild(ClearCreated(h1, h.Parent[self], h.Name[self]),
                           h.Parent[self], h.Name[self], m)
        IN  IF dn.res # "Ok" THEN dn ELSE Ret(h2, "Ok", m)])

\* How UnMount puts the replacement back into the parent's map.
UnMountAttach(h, p, nm, c) == AddChild(h, p, nm, c)

\* Dirent::UnMount.
UnMount(h, self, replace) ==
    IF h.Parent[self] = None THEN Ret(Fail(h, "panic"), "fault", None)
    ELSE IF h.Name[replace] \notin Names
    THEN \* the name of a root: no entry is under it
         Ret(Fail(IF h.Parent[replace] # None THEN h
                  ELSE [h EXCEPT !.Parent[replace] = h.Parent[self]],
                  "panic"), "fault", None)
    ELSE LET p == h.Parent[self]
             nm == h.Name[replace]
             old == h.Children[p][nm]
         IN  Only([h1 \in {UnMountAttach(ClearCreated(h, p, nm), p, nm,
                                         replace)} |->
                 IF h1.fault # "none" THEN Ret(h1, "fault", None)
                 ELSE IF old = None THEN Ret(Fail(h1, "panic"), "fault", None)
                 ELSE Ret([h1 EXCEPT !.mounted[self] = FALSE], "Ok", None)])

\* ------------------------------------------------ committing a result
NoOp == [op |-> "", a |-> None, n1 |-> "", b |-> None, n2 |-> "",
         res |-> "", node |-> None]

Op(op, a, n1, b, n2, res, node) ==
    [op |-> op, a |-> a, n1 |-> n1, b |-> b, n2 |-> n2, res |-> res,
     node |-> node]

\* The operation ends (or stops the kernel): the heap it leaves is the state
\* of the program.  An operation that ran out of the model's nodes is not
\* taken.
Commit(h, l) ==
    /\ h.fault # "bound"
    /\ h.fault = "none" => h.pins = {}
    /\ Inode' = h.Inode
    /\ Name' = h.Name
    /\ Parent' = h.Parent
    /\ Children' = h.Children
    /\ mounted' = h.mounted
    /\ alive' = h.alive
    /\ held' = h.held
    /\ ext' = h.ext
    /\ store' = h.store
    /\ fault' = h.fault
    /\ created' = h.created
    /\ origin' = h.origin
    /\ log' = h.log
    /\ ops' = ops + 1
    /\ before' = Heap
    /\ last' = IF h.fault = "none" THEN l ELSE [l EXCEPT !.res = "fault"]
    /\ UNCHANGED threadVars
    /\ UNCHANGED timer

\* The caller keeps the handle an operation returned.
GiveToCaller(h, n) == [h EXCEPT !.held[n] = TRUE, !.pins = @ \ {n}]

\* The result r of an operation that hands a dirent to its caller.
Returned(r) ==
    IF r.res = "Ok" /\ r.h.fault = "none" THEN GiveToCaller(r.h, r.node)
    ELSE r.h

\* A caller that holds a handle of n may call an operation on it, once the
\* result of the previous call has been taken.
Callable(n) ==
    fault = "none" /\ last.op = "" /\ ops < MaxOps /\ n \in alive /\ held[n]

\* ------------------------------------------------------------ actions
CallWalk(n, root, nm, be) ==
    /\ Callable(n) /\ Callable(root)
    /\ \E h \in {Heap} : \E r \in {walk(h, n, root, nm, be)} :
           Commit(Returned(r), Op("Walk", n, nm, root, "", r.res, r.node))

\* A caller (or a closing file) lets go of the handles it holds of n.
Release(n) ==
    /\ Callable(n) /\ n # RootNode
    /\ \E h \in {DropHandle([Heap EXCEPT !.held[n] = FALSE], n)} :
           Commit(h, Op("Release", n, "", None, "", "Ok", None))

\* The caller takes the result of the call that ran last.
Return ==
    /\ fault = "none"
    /\ last.op # ""
    /\ last' = NoOp
    /\ log' = <<>>
    /\ before' = Heap
    /\ UNCHANGED <<Inode, Name, Parent, Children, mounted, alive, held, ext,
                   store, fault, created, origin, ops>>
    /\ UNCHANGED threadVars
    /\ UNCHANGED timer

CallCreate(self, nm, be, keep) ==
    /\ Callable(self)
    /\ \E h \in {Heap} : \E r \in {Create(h, self, RootNode, nm, be, keep)} :
           Commit(Returned(r), Op("Create", self, nm, None, "", r.res, r.node))

CallCreateDirectory(self, nm, be) ==
    /\ Callable(self)
    /\ \E h \in {Heap} : \E r \in {CreateDirectory(h, self, RootNode, nm, be)} :
           Commit(r.h, Op("CreateDirectory", self, nm, None, "", r.res, None))

CallCreateLink(self, oldname, newname, be) ==
    /\ Callable(self)
    /\ \E h \in {Heap} : \E r \in {CreateLink(h, self, RootNode, oldname, newname, be)} :
           Commit(r.h, Op("CreateLink", self, newname, None, oldname, r.res,
                          None))

CallCreateHardLink(self, target, nm, be) ==
    /\ Callable(self) /\ Callable(target)
    /\ \E h \in {Heap} : \E r \in {CreateHardLink(h, self, RootNode, target, nm, be)} :
           Commit(r.h, Op("CreateHardLink", self, nm, target, "", r.res, None))

CallCreateFifo(self, nm, be) ==
    /\ Callable(self)
    /\ \E h \in {Heap} : \E r \in {CreateFifo(h, self, RootNode, nm, be)} :
           Commit(r.h, Op("CreateFifo", self, nm, None, "", r.res, None))

CallBind(self, nm, be, keep) ==
    /\ Callable(self)
    /\ \E h \in {Heap} : \E r \in {Bind(h, self, RootNode, nm, be, keep)} :
           Commit(Returned(r), Op("Bind", self, nm, None, "", r.res, r.node))

CallRemove(self, nm, dirPath, be) ==
    /\ Callable(self)
    /\ \E h \in {Heap} : \E r \in {Remove(h, self, RootNode, nm, dirPath, be)} :
           Commit(r.h, [op |-> "Remove", a |-> self, n1 |-> nm, b |-> None,
                        n2 |-> "", res |-> r.res, node |-> r.node,
                        dirPath |-> dirPath])

CallRemoveDirectory(self, nm, be) ==
    /\ Callable(self)
    /\ \E h \in {Heap} : \E r \in {RemoveDirectory(h, self, RootNode, nm, be)} :
           Commit(r.h, Op("RemoveDirectory", self, nm, None, "", r.res, r.node))

CallRename(oldParent, oldName, newParent, newName, deny, be) ==
    /\ Callable(oldParent) /\ Callable(newParent)
    /\ \E h \in {Heap} : \E r \in {Rename(h, RootNode, oldParent, oldName, newParent, newName,
                       deny, be)} :
           Commit(r.h, [op |-> "Rename", a |-> oldParent, n1 |-> oldName,
                        b |-> newParent, n2 |-> newName, res |-> r.res,
                        node |-> r.node, deny |-> deny, be |-> be])

CallFlush(self) ==
    /\ Callable(self)
    /\ \E h \in {flush(Heap, self, {})} :
           Commit(h, Op("flush", self, "", None, "", "Ok", None))

CallMayDelete(self, nm, cr, be) ==
    /\ Callable(self)
    /\ \E h \in {Heap} : \E r \in {MayDelete(h, self, RootNode, nm, cr, be)} :
           Commit(r.h, [op |-> "MayDelete", a |-> self, n1 |-> nm,
                        b |-> None, n2 |-> "", res |-> r.res,
                        node |-> r.node, cr |-> cr, be |-> be])

CallMount(self, inode) ==
    /\ Callable(self)
    /\ \E h \in {Heap} : \E r \in {Mount(h, self, inode)} :
           Commit(Returned(r), Op("Mount", self, "", inode, "", r.res, r.node))

CallMountRoot(self) ==
    /\ Callable(self)
    /\ \E h \in {Heap} : \E r \in {Ret(h, "Ok", MountRoot(h, self))} :
           Commit(Returned(r), Op("MountRoot", self, "", None, "", r.res, r.node))

CallUnMount(self, replace) ==
    /\ Callable(self) /\ Callable(replace)
    /\ \E h \in {Heap} : \E r \in {UnMount(h, self, replace)} :
           Commit(r.h, Op("UnMount", self, "", replace, "", r.res, None))

\* A thread that runs no operation, and the step before any step.
NoCall == [op |-> "", a |-> None, n1 |-> "", b |-> None, n2 |-> "",
           pin |-> None]
NoStep == [t |-> None, what |-> ""]

\* RawTimer::New: Stopped, SeqNo 0, not in the store.  pc and fireSeq are
\* the Fire in flight; last, was, ret and stopped are history.
RawTimerNew ==
    [State |-> "Stopped", SeqNo |-> 0, armed |-> None, pc |-> "idle",
     fireSeq |-> 0, last |-> "", was |-> "Stopped", ret |-> FALSE,
     stopped |-> FALSE]

ThreadsIdle ==
    /\ pc = [t \in Threads |-> "idle"]
    /\ loc = [t \in Threads |-> NoCall]
    /\ rdlock = {}
    /\ wrlock = None
    /\ step = NoStep

\* What the backing file system holds when the root dirent is made: nothing,
\* a chain of directories /a/a/a, or two directories /a and /b and a file /a/a.
EmptyStore == [i \in DirInodes |-> NoEntries]

InitStores ==
    { EmptyStore,
      [EmptyStore EXCEPT ![1]["a"] = 2, ![2]["a"] = 3, ![3]["a"] = 4],
      [EmptyStore EXCEPT ![1]["a"] = 2, ![1]["b"] = 3, ![2]["a"] = 5] }

Init ==
    /\ Inode = [n \in Nodes |-> IF n = RootNode THEN 1 ELSE None]
    /\ Name = [n \in Nodes |-> IF n = RootNode THEN "/" ELSE ""]
    /\ Parent = [n \in Nodes |-> None]
    /\ Children = [n \in Nodes |-> NoChildren]
    /\ mounted = [n \in Nodes |-> FALSE]
    /\ alive = {RootNode}
    /\ held = [n \in Nodes |-> n = RootNode]
    /\ ext = [n \in Nodes |-> FALSE]
    /\ store \in InitStores
    /\ fault = "none"
    /\ created = [n \in Nodes |-> FALSE]
    /\ origin = [n \in Nodes |-> None]
    /\ ops = 0
    /\ before = Heap
    /\ last = NoOp
    /\ log = <<>>
    /\ ThreadsIdle
    /\ timer = RawTimerNew

WalkStep ==
    \E n \in Nodes, nm \in WalkNames, be \in LookupAnswers :
        \E root \in {RootNode, n} : CallWalk(n, root, nm, be)

ReleaseStep == \E n \in Nodes : Release(n)

CreateStep ==
    \E n \in Nodes, nm \in Names, be \in OpAnswers, keep \in BOOLEAN :
        CallCreate(n, nm, be, keep)

CreateDirectoryStep ==
    \E n \in Nodes, nm \in Names, be \in OpAnswers :
        CallCreateDirectory(n, nm, be)

CreateLinkStep ==
    \E n \in Nodes, o \in Names, nm \in Names, be \in OpAnswers :
        CallCreateLink(n, o, nm, be)

CreateHardLinkStep ==
    \E n \in Nodes, t \in Nodes, nm \in Names, be \in OpAnswers :
        CallCreateHardLink(n, t, nm, be)

CreateFifoStep ==
    \E n \in Nodes, nm \in Names, be \in OpAnswers :
        CallCreateFifo(n, nm, be)

BindStep ==
    \E n \in Nodes, nm \in Names, be \in OpAnswers, keep \in BOOLEAN :
        CallBind(n, nm, be, keep)

RemoveStep ==
    \E n \in Nodes, nm \in Names, dirPath \in BOOLEAN, be \in OpAnswers :
        CallRemove(n, nm, dirPath, be)

RemoveDirectoryStep ==
    \E n \in Nodes, nm \in WalkNames, be \in OpAnswers :
        CallRemoveDirectory(n, nm, be)

RenameStep ==
    \E op \in Nodes, np \in Nodes, on \in Names, nn \in Names,
       be \in OpAnswers :
        CallRename(op, on, np, nn, {}, be)

\* Rename with credentials that fail some of the checks and a backend whose
\* lookups or whose rename may fail.
RenameGatesStep ==
    \E op \in Nodes, np \in Nodes, on \in Names, nn \in Names,
       deny \in DenyFrom, be \in BackendAnswers :
        /\ ops < MaxGateOps
        /\ ~(be.lookupFails /\ be.opFails)
        /\ CallRename(op, on, np, nn, deny, be)

MountStep == \E n \in Nodes, i \in {7, 8} : CallMount(n, i)

MayDeleteStep ==
    \E n \in Nodes, nm \in WalkNames, cr \in DeleteAnswers,
       be \in LookupAnswers :
        /\ ops < MaxGateOps
        /\ CallMayDelete(n, nm, cr, be)

\* Mount with the inode of a directory that has entries (a bind mount).
MountDirStep == \E n \in Nodes : CallMount(n, 2)

MountRootStep == \E n \in Nodes : CallMountRoot(n)

\* Mount with the inode of a file (a bind mount of a file).
MountFileStep == \E n \in Nodes : CallMount(n, 6)

UnMountStep == \E n \in Nodes, r \in Nodes : CallUnMount(n, r)

\* The namespace operations on files and directories.
NextTree ==
    \/ Return
    \/ WalkStep
    \/ ReleaseStep
    \/ CreateStep
    \/ RemoveStep
    \/ RenameStep

SpecTree == Init /\ [][NextTree]_vars

\* Mounting, and the operations that stop at a mount boundary.
NextMount ==
    \/ Return
    \/ WalkStep
    \/ ReleaseStep
    \/ CreateHardLinkStep
    \/ RemoveDirectoryStep
    \/ MountStep
    \/ MountDirStep
    \/ MountRootStep
    \/ UnMountStep

SpecMount == Init /\ [][NextMount]_vars

\* Every operation on the namespace.
NextAll ==
    \/ Return
    \/ WalkStep
    \/ ReleaseStep
    \/ CreateStep
    \/ RemoveStep
    \/ RemoveDirectoryStep
    \/ RenameStep
    \/ MountStep
    \/ UnMountStep

SpecAll == Init /\ [][NextAll]_vars

\* Remove and RemoveDirectory: files, directories, mount points.
NextRemove ==
    \/ Return
    \/ WalkStep
    \/ CreateStep
    \/ MountStep
    \/ MountFileStep
    \/ RemoveStep
    \/ RemoveDirectoryStep

SpecRemove == Init /\ [][NextRemove]_vars

\* The tree that Walk(/, a), Walk(/a, a) and Rename(/a, a, /, b) leave: the
\* directory 3 is entered in the root's map under "b" and keeps the directory
\* 2 as its Parent; the caller holds all three.
MovedTree ==
    [Inode |-> [n \in Nodes |-> IF n <= 3 THEN n ELSE None],
     Name |-> [n \in Nodes |-> IF n = 1 THEN "/" ELSE IF n = 2 THEN "a"
                               ELSE IF n = 3 THEN "b" ELSE ""],
     Parent |-> [n \in Nodes |-> IF n \in {2, 3} THEN n - 1 ELSE None],
     Children |-> [n \in Nodes |->
                     IF n = 1 THEN [NoChildren EXCEPT !["a"] = 2, !["b"] = 3]
                     ELSE NoChildren],
     alive |-> {1, 2, 3},
     held |-> [n \in Nodes |-> n <= 3],
     store |-> [EmptyStore EXCEPT ![1]["a"] = 2, ![1]["b"] = 3]]

\* flush, called by Rename and by a holder of the node, on the tree a
\* Rename of a directory to another parent has left.
InitFlush ==
    /\ Inode = MovedTree.Inode
    /\ Name = MovedTree.Name
    /\ Parent = MovedTree.Parent
    /\ Children = MovedTree.Children
    /\ mounted = [n \in Nodes |-> FALSE]
    /\ alive = MovedTree.alive
    /\ held = MovedTree.held
    /\ ext = [n \in Nodes |-> FALSE]
    /\ store = MovedTree.store
    /\ fault = "none"
    /\ created = [n \in Nodes |-> FALSE]
    /\ origin = [n \in Nodes |-> None]
    /\ ops = 0
    /\ before = Heap
    /\ last = NoOp
    /\ log = <<>>
    /\ ThreadsIdle
    /\ timer = RawTimerNew

FlushStep == \E n \in Nodes : CallFlush(n)

NextFlush ==
    \/ Return
    \/ ReleaseStep
    \/ CreateStep
    \/ RenameStep
    \/ FlushStep

SpecFlush == InitFlush /\ [][NextFlush]_vars

\* MayDelete with every answer of the task and of the backend.
NextMayDelete ==
    \/ Return
    \/ WalkStep
    \/ MayDeleteStep

SpecMayDelete == Init /\ [][NextMayDelete]_vars

\* Rename and its gates: cached nodes, mount points, failing checks.
NextRename ==
    \/ Return
    \/ WalkStep
    \/ CreateStep
    \/ MountStep
    \/ RenameGatesStep

SpecRename == Init /\ [][NextRename]_vars

\* The operations that make a name.
NextCreate ==
    \/ Return
    \/ WalkStep
    \/ CreateStep
    \/ CreateDirectoryStep
    \/ CreateLinkStep
    \/ CreateHardLinkStep
    \/ CreateFifoStep
    \/ BindStep

SpecCreate == Init /\ [][NextCreate]_vars

\* ------------------------------------------------- concurrent threads
\* Operations run by several threads, one step at a time.  RENAME is a
\* reader-writer lock: read() waits while a writer holds it, write() waits
\* while anyone holds it.  A handle a thread keeps in a local variable from
\* one step to the next (loc[t].pin) keeps the node alive.
PinsOfOthers(t) == {loc[u].pin : u \in Threads \ {t}} \ {None}

\* The heap as thread t's step sees it: the handles of the other threads
\* count like handles of callers.
ThreadHeap(t) ==
    [Heap EXCEPT !.pins = {loc[t].pin} \ {None},
                 !.held = [n \in Nodes |-> held[n] \/ n \in PinsOfOthers(t)]]

\* Thread t's step ends with heap h, at newpc, with the locals newloc.
ThreadCommit(t, h, newpc, newloc, what) ==
    /\ h.fault # "bound"
    /\ h.fault = "none" => h.pins = {newloc.pin} \ {None}
    /\ Inode' = h.Inode
    /\ Name' = h.Name
    /\ Parent' = h.Parent
    /\ Children' = h.Children
    /\ mounted' = h.mounted
    /\ alive' = h.alive
    /\ held' = [n \in Nodes |-> IF n \in PinsOfOthers(t) THEN held[n]
                                ELSE h.held[n]]
    /\ ext' = h.ext
    /\ store' = h.store
    /\ fault' = h.fault
    /\ created' = h.created
    /\ origin' = h.origin
    /\ pc' = [pc EXCEPT ![t] = newpc]
    /\ loc' = [loc EXCEPT ![t] = newloc]
    /\ step' = [t |-> t, what |-> what]
    /\ UNCHANGED <<before, last, log, timer>>

\* Thread t calls an operation on the dirents a (and b) it holds.
ThreadCall(t, op, a, n1, b, n2, first) ==
    /\ fault = "none" /\ pc[t] = "idle" /\ ops < MaxThreadOps
    /\ a \in alive /\ held[a]
    /\ b # None => b \in alive /\ held[b]
    /\ ops' = ops + 1
    /\ ThreadCommit(t, Heap, first,
                    [op |-> op, a |-> a, n1 |-> n1, b |-> b, n2 |-> n2,
                     pin |-> None], "call")
    /\ UNCHANGED <<rdlock, wrlock>>

\* RENAME.read() and RENAME.write() return.
ReadLock(t, at, next) ==
    /\ fault = "none" /\ pc[t] = at
    /\ wrlock = None
    /\ rdlock' = rdlock \cup {t}
    /\ ThreadCommit(t, Heap, next, loc[t], "lock")
    /\ UNCHANGED <<wrlock, ops>>

WriteLock(t, at, next) ==
    /\ fault = "none" /\ pc[t] = at
    /\ wrlock = None /\ rdlock = {}
    /\ wrlock' = t
    /\ ThreadCommit(t, Heap, next, loc[t], "lock")
    /\ UNCHANGED <<rdlock, ops>>

\* Dirent::Walk: read lock, walk, unlock.  The caller drops the result.
WalkCall(t, n, nm) == ThreadCall(t, "Walk", n, nm, None, "", "walkLock")

\* A variant of WalkLock that does not wait for the writer.
WalkLockFree(t) ==
    /\ fault = "none" /\ pc[t] = "walkLock"
    /\ rdlock' = rdlock \cup {t}
    /\ ThreadCommit(t, Heap, "walk", loc[t], "lock")
    /\ UNCHANGED <<wrlock, ops>>

\* Dirent::Walk takes RENAME.read().
WalkLock(t) == ReadLock(t, "walkLock", "walk")

WalkBody(t) ==
    /\ fault = "none" /\ pc[t] = "walk"
    /\ \E th \in {ThreadHeap(t)} :
         \E r \in {walk(th, loc[t].a, RootNode, loc[t].n1, BackendOk)} :
           \E h \in {IF r.res = "Ok" THEN Unpin(r.h, r.node) ELSE r.h} :
               ThreadCommit(t, h, "idle", NoCall, "walk")
    /\ rdlock' = rdlock \ {t}
    /\ UNCHANGED <<wrlock, ops>>

\* Dirent::Rename between two parents: write lock; the gates, the backend's
\* rename and the entries taken out; the entry put in and the rest; unlock.
RenameCall(t, oldParent, oldName, newParent, newName) ==
    /\ oldParent # newParent
    /\ ThreadCall(t, "Rename", oldParent, oldName, newParent, newName,
                  "renameLock")

RenameLock(t) == WriteLock(t, "renameLock", "renameDetach")

RenameDetach(t) ==
    /\ fault = "none" /\ pc[t] = "renameDetach"
    /\ \E c \in {loc[t]}, th \in {ThreadHeap(t)} :
         \E g \in {renameGates(th, RootNode, c.a, c.n1, c.b, c.n2, {},
                                BackendOk)} :
           IF g.res # "Ok"
           THEN ThreadCommit(t, g.h, "idle", NoCall, "Rename") /\ wrlock' = None
           ELSE \E d \in {renameDetach(g.h, c.a, c.n1, c.b, c.n2, g.node,
                                        g.exist, BackendOk)} :
                  IF d.res # "Ok"
                  THEN /\ ThreadCommit(t, d.h, "idle", NoCall, "Rename")
                       /\ wrlock' = None
                  ELSE /\ ThreadCommit(t, d.h, "renameAttach",
                                       [c EXCEPT !.pin = g.node], "Rename")
                       /\ wrlock' = wrlock
    /\ UNCHANGED <<rdlock, ops>>

RenameAttach(t) ==
    /\ fault = "none" /\ pc[t] = "renameAttach"
    /\ \E c \in {loc[t]}, th \in {ThreadHeap(t)} :
         \E r \in {renameAttach(th, c.a, c.n1, c.b, c.n2, c.pin)} :
           ThreadCommit(t, r.h, "idle", NoCall, "Rename")
    /\ wrlock' = None
    /\ UNCHANGED <<rdlock, ops>>

\* Dirent::Remove: Walk (read lock, walk, unlock), then the checks and the
\* backend's remove, then the cache and the notifications.
RemoveCall(t, self, nm) ==
    ThreadCall(t, "Remove", self, nm, None, "", "removeLock")

RemoveLock(t) == ReadLock(t, "removeLock", "removeWalk")

RemoveWalk(t) ==
    /\ fault = "none" /\ pc[t] = "removeWalk"
    /\ \E c \in {loc[t]}, th \in {ThreadHeap(t)} :
         \E w \in {walk(th, c.a, RootNode, c.n1, BackendOk)} :
           IF w.res # "Ok" THEN ThreadCommit(t, w.h, "idle", NoCall, "walk")
           ELSE ThreadCommit(t, w.h, "removeBackend",
                             [c EXCEPT !.pin = w.node], "walk")
    /\ rdlock' = rdlock \ {t}
    /\ UNCHANGED <<wrlock, ops>>

RemoveBackend(t) ==
    /\ fault = "none" /\ pc[t] = "removeBackend"
    /\ \E c \in {loc[t]}, th \in {ThreadHeap(t)} :
         \E b \in {removeBackend(th, c.a, c.n1, c.pin, FALSE, BackendOk)} :
           IF b.res # "Ok" THEN ThreadCommit(t, b.h, "idle", NoCall, "Remove")
           ELSE ThreadCommit(t, b.h, "removeCache", c, "Remove")
    /\ UNCHANGED <<rdlock, wrlock, ops>>

RemoveCache(t) ==
    /\ fault = "none" /\ pc[t] = "removeCache"
    /\ \E c \in {loc[t]}, th \in {ThreadHeap(t)} :
         \E r \in {removeCache(th, c.a, c.n1, c.pin)} :
           ThreadCommit(t, r.h, "idle", NoCall, "Remove")
    /\ UNCHANGED <<rdlock, wrlock, ops>>

\* Dirent::Mount: no lock.  The caller keeps the mounted dirent.
ThreadMount(t, self, inode) ==
    /\ fault = "none" /\ pc[t] = "idle" /\ ops < MaxThreadOps
    /\ self \in alive /\ held[self]
    /\ ops' = ops + 1
    /\ \E th \in {ThreadHeap(t)} : \E r \in {Mount(th, self, inode)} :
           ThreadCommit(t, Returned(r), "idle", NoCall, "Mount")
    /\ UNCHANGED <<rdlock, wrlock>>

\* Two directories /a and /b, resolved and held by callers, and a file /a/a.
InitLock ==
    /\ Inode = [n \in Nodes |-> IF n <= 3 THEN n ELSE None]
    /\ Name = [n \in Nodes |-> IF n = 1 THEN "/" ELSE IF n = 2 THEN "a"
                               ELSE IF n = 3 THEN "b" ELSE ""]
    /\ Parent = [n \in Nodes |-> IF n \in {2, 3} THEN RootNode ELSE None]
    /\ Children = [n \in Nodes |-> IF n = RootNode
                                   THEN [NoChildren EXCEPT !["a"] = 2, !["b"] = 3]
                                   ELSE NoChildren]
    /\ mounted = [n \in Nodes |-> FALSE]
    /\ alive = {1, 2, 3}
    /\ held = [n \in Nodes |-> n <= 3]
    /\ ext = [n \in Nodes |-> FALSE]
    /\ store = [EmptyStore EXCEPT ![1]["a"] = 2, ![1]["b"] = 3, ![2]["a"] = 5]
    /\ fault = "none"
    /\ created = [n \in Nodes |-> FALSE]
    /\ origin = [n \in Nodes |-> None]
    /\ ops = 0
    /\ before = Heap
    /\ last = NoOp
    /\ log = <<>>
    /\ ThreadsIdle
    /\ timer = RawTimerNew

NextLock ==
    \/ \E t \in Threads, n \in Nodes, nm \in Names : WalkCall(t, n, nm)
    \/ \E t \in Threads : WalkLock(t)
    \/ \E t \in Threads : WalkBody(t)
    \/ \E t \in Threads, o \in Nodes, np \in Nodes, on \in Names, nn \in Names :
           RenameCall(t, o, on, np, nn)
    \/ \E t \in Threads : RenameLock(t)
    \/ \E t \in Threads : RenameDetach(t)
    \/ \E t \in Threads : RenameAttach(t)
    \/ \E t \in Threads, n \in Nodes, nm \in Names : RemoveCall(t, n, nm)
    \/ \E t \in Threads : RemoveLock(t)
    \/ \E t \in Threads : RemoveWalk(t)
    \/ \E t \in Threads : RemoveBackend(t)
    \/ \E t \in Threads : RemoveCache(t)
    \/ \E t \in Threads, n \in Nodes : ThreadMount(t, n, 8)

SpecLock == InitLock /\ [][NextLock]_vars

\* ------------------------------------------------- concurrent drops
\* impl Drop for Dirent, one step at a time.  A thread keeps the dirent a
\* Walk returned (loc[t].pin) and then drops it: it reads the strong count;
\* when it read 1 it takes Parent and then removes the entry under the
\* node's name from the parent's map; last the Arc itself is released.  The
\* directories walked from stay held by callers, so the handle of the parent
\* a drop takes (loc[t].b) is never the parent's last one.
StrongCount(n) ==
    Cardinality({u \in Threads : loc[u].pin = n})
        + (IF held[n] THEN 1 ELSE 0) + (IF ext[n] THEN 1 ELSE 0)
        + Cardinality({c \in alive : Parent[c] = n})

\* Dirent::Walk whose caller keeps the dirent it returns.
WalkKeep(t) ==
    /\ fault = "none" /\ pc[t] = "walk"
    /\ \E th \in {ThreadHeap(t)} :
         \E r \in {walk(th, loc[t].a, RootNode, loc[t].n1, BackendOk)} :
           IF r.res = "Ok"
           THEN ThreadCommit(t, r.h, "holding",
                             [loc[t] EXCEPT !.pin = r.node], "walk")
           ELSE ThreadCommit(t, r.h, "idle", NoCall, "walk")
    /\ rdlock' = rdlock \ {t}
    /\ UNCHANGED <<wrlock, ops>>

\* if Arc::strong_count(&self.0) == 1
DropCheck(t) ==
    /\ fault = "none" /\ pc[t] = "holding"
    /\ ThreadCommit(t, ThreadHeap(t),
                    IF StrongCount(loc[t].pin) = 1 THEN "dropTake"
                    ELSE "dropRelease", loc[t], "drop")
    /\ UNCHANGED <<rdlock, wrlock, ops>>

\* let parent = (self.0).0.lock().Parent.take()
DropTake(t) ==
    /\ fault = "none" /\ pc[t] = "dropTake"
    /\ \E n \in {loc[t].pin} :
         IF Parent[n] = None
         THEN ThreadCommit(t, ThreadHeap(t), "dropRelease", loc[t], "drop")
         ELSE ThreadCommit(t, [ThreadHeap(t) EXCEPT !.Parent[n] = None],
                           "dropRemove", [loc[t] EXCEPT !.b = Parent[n]],
                           "drop")
    /\ UNCHANGED <<rdlock, wrlock, ops>>

\* let name = (self.0).0.lock().Name.clone(); parent.RemoveChild(&name)
DropRemove(t) ==
    /\ fault = "none" /\ pc[t] = "dropRemove"
    /\ \E c \in {loc[t]} :
         ThreadCommit(t, DetachFromParent(ThreadHeap(t), c.b, Name[c.pin],
                                          c.pin),
                      "dropRelease", [c EXCEPT !.b = None], "drop")
    /\ UNCHANGED <<rdlock, wrlock, ops>>

\* The Arc is released.  With no other handle the InterDirent is destroyed,
\* and with it the Parent it still holds.
DropRelease(t) ==
    /\ fault = "none" /\ pc[t] = "dropRelease"
    /\ \E n \in {loc[t].pin} :
         \E th \in {[ThreadHeap(t) EXCEPT !.pins = {}]} :
           \E h \in {IF Referenced(th, n) THEN th
                     ELSE IF th.Parent[n] = None THEN FreeNode(th, n)
                     ELSE DropHandle(FreeNode(th, n), th.Parent[n])} :
               ThreadCommit(t, h, "idle", NoCall, "release")
    /\ UNCHANGED <<rdlock, wrlock, ops>>

NextDrop ==
    \/ \E t \in Threads, n \in Nodes, nm \in WalkNames : WalkCall(t, n, nm)
    \/ \E t \in Threads : WalkLock(t)
    \/ \E t \in Threads : WalkKeep(t)
    \/ \E t \in Threads : DropCheck(t)
    \/ \E t \in Threads : DropTake(t)
    \/ \E t \in Threads : DropRemove(t)
    \/ \E t \in Threads : DropRelease(t)

SpecDrop == InitLock /\ [][NextDrop]_vars

\* ------------------------------------------------- Walk, step by step
\* Dirent::Walk on a cache miss, one statement at a time, all under
\* RENAME.read(): the probe of the children map (GetCacheChild and the
\* removal of the name), the backend's Lookup, AddChild.  A hit, a special
\* name or a start node that is no directory ends the walk in the probe.
WalkMisses(t) ==
    /\ loc[t].n1 \in Names /\ IsDir(Inode[loc[t].a])
    /\ GetCacheChild(Heap, loc[t].a, loc[t].n1) = None

WalkProbe(t) ==
    /\ fault = "none" /\ pc[t] = "walk"
    /\ IF WalkMisses(t)
       THEN /\ ThreadCommit(t, RemoveChild(ThreadHeap(t), loc[t].a,
                                           loc[t].n1),
                            "walkLookup", loc[t], "walk")
            /\ UNCHANGED rdlock
       ELSE /\ \E th \in {ThreadHeap(t)} :
                 \E r \in {walk(th, loc[t].a, RootNode, loc[t].n1,
                                BackendOk)} :
                   IF r.res = "Ok"
                   THEN ThreadCommit(t, r.h, "holding",
                                     [loc[t] EXCEPT !.pin = r.node], "walk")
                   ELSE ThreadCommit(t, r.h, "idle", NoCall, "walk")
            /\ rdlock' = rdlock \ {t}
    /\ UNCHANGED <<wrlock, ops>>

\* let c = inode.Lookup(task, name)
WalkLookup(t) ==
    /\ fault = "none" /\ pc[t] = "walkLookup"
    /\ \E th \in {ThreadHeap(t)} :
         \E r \in {Lookup(th, Inode[loc[t].a], loc[t].n1, BackendOk)} :
           IF r.res = "Ok"
           THEN /\ ThreadCommit(t, r.h, "walkInsert",
                                [loc[t] EXCEPT !.pin = r.node], "walk")
                /\ UNCHANGED rdlock
           ELSE /\ ThreadCommit(t, r.h, "idle", NoCall, "walk")
                /\ rdlock' = rdlock \ {t}
    /\ UNCHANGED <<wrlock, ops>>

\* self.AddChild(name, &c); return Ok(c): the caller keeps the dirent.
WalkInsert(t) ==
    /\ fault = "none" /\ pc[t] = "walkInsert"
    /\ ThreadCommit(t, AddChild(ThreadHeap(t), loc[t].a, loc[t].n1,
                                loc[t].pin),
                    "holding", loc[t], "walk")
    /\ rdlock' = rdlock \ {t}
    /\ UNCHANGED <<wrlock, ops>>

NextWalk ==
    \/ \E t \in Threads, n \in Nodes, nm \in WalkNames : WalkCall(t, n, nm)
    \/ \E t \in Threads : WalkLock(t)
    \/ \E t \in Threads : WalkProbe(t)
    \/ \E t \in Threads : WalkLookup(t)
    \/ \E t \in Threads : WalkInsert(t)
    \/ \E t \in Threads : DropCheck(t)
    \/ \E t \in Threads : DropTake(t)
    \/ \E t \in Threads : DropRemove(t)
    \/ \E t \in Threads : DropRelease(t)

SpecWalk == Init /\ [][NextWalk]_vars

\* ------------------------------------------------- InotifyEvent
\* Dirent::InotifyEvent, one statement at a time.  `let _ = RENAME.read()`
\* binds the guard to no variable: it is dropped at the end of that
\* statement, so the call waits for a writer and goes on without the lock.
\* loc[t].b is the parent read, loc[t].n1 the name read.
InotifyCall(t, n) ==
    ThreadCall(t, "InotifyEvent", n, "", None, "", "inotifyLock")

InotifyLock(t) ==
    /\ fault = "none" /\ pc[t] = "inotifyLock"
    /\ EnableInotify
    /\ wrlock = None
    /\ ThreadCommit(t, Heap, "inotifyParent", loc[t], "lock")
    /\ UNCHANGED <<rdlock, wrlock, ops>>

\* let parent = (self.0).0.lock().Parent.clone()
InotifyParent(t) ==
    /\ fault = "none" /\ pc[t] = "inotifyParent"
    /\ ThreadCommit(t, ThreadHeap(t),
                    IF Parent[loc[t].a] = None THEN "inotifySelf"
                    ELSE "inotifyName",
                    [loc[t] EXCEPT !.b = Parent[loc[t].a]], "InotifyEvent")
    /\ UNCHANGED <<rdlock, wrlock, ops>>

\* let name = (self.0).0.lock().Name.clone();
\* p.Inode().Watches().Notify(&name, event, cookie)
InotifyName(t) ==
    /\ fault = "none" /\ pc[t] = "inotifyName"
    /\ ThreadCommit(t, ThreadHeap(t), "inotifySelf",
                    [loc[t] EXCEPT !.n1 = Name[loc[t].a]], "notifyParent")
    /\ UNCHANGED <<rdlock, wrlock, ops>>

\* inode.Watches().Notify("", event, cookie)
InotifySelf(t) ==
    /\ fault = "none" /\ pc[t] = "inotifySelf"
    /\ ThreadCommit(t, ThreadHeap(t), "idle", NoCall, "notifySelf")
    /\ UNCHANGED <<rdlock, wrlock, ops>>

NextInotify ==
    \/ \E t \in Threads, n \in Nodes : InotifyCall(t, n)
    \/ \E t \in Threads : InotifyLock(t)
    \/ \E t \in Threads : InotifyParent(t)
    \/ \E t \in Threads : InotifyName(t)
    \/ \E t \in Threads : InotifySelf(t)
    \/ \E t \in Threads, o \in Nodes, np \in Nodes, on \in Names, nn \in Names :
           RenameCall(t, o, on, np, nn)
    \/ \E t \in Threads : RenameLock(t)
    \/ \E t \in Threads : RenameDetach(t)
    \/ \E t \in Threads : RenameAttach(t)

SpecInotify == InitLock /\ [][NextInotify]_vars

\* ------------------------------------------------- traversals and RENAME
\* The traversals, each with the lock it takes: FullName and MyFullName take
\* RENAME.read(), MountRoot takes RENAME.write(), and DescendantOf, which
\* GetDotAttrs calls, takes none.  A traversal leaves the tree as it is; the
\* caller drops the dirent MountRoot returns.
TraversalDone(t, what) ==
    /\ ThreadCommit(t, ThreadHeap(t), "idle", NoCall, what)
    /\ rdlock' = rdlock \ {t}
    /\ wrlock' = IF wrlock = t THEN None ELSE wrlock
    /\ UNCHANGED ops

\* Dirent::FullName / Dirent::MyFullName.
FullNameCall(t, n) == ThreadCall(t, "FullName", n, "", None, "", "fullNameLock")

FullNameLock(t) == ReadLock(t, "fullNameLock", "fullName")

FullNameBody(t) ==
    /\ fault = "none" /\ pc[t] = "fullName"
    /\ fullName(Heap, loc[t].a, RootNode)[2] \in BOOLEAN
    /\ TraversalDone(t, "FullName")

\* Dirent::MountRoot.
MountRootCall(t, n) ==
    ThreadCall(t, "MountRoot", n, "", None, "", "mountRootLock")

MountRootLock(t) == WriteLock(t, "mountRootLock", "mountRoot")

MountRootBody(t) ==
    /\ fault = "none" /\ pc[t] = "mountRoot"
    /\ MountRoot(Heap, loc[t].a) \in alive
    /\ TraversalDone(t, "MountRoot")

\* Dirent::GetDotAttrs: !self.IsRoot() && self.DescendantOf(root).
GetDotAttrsCall(t, n) ==
    ThreadCall(t, "GetDotAttrs", n, "", RootNode, "", "descendantOf")

GetDotAttrsBody(t) ==
    /\ fault = "none" /\ pc[t] = "descendantOf"
    /\ (Parent[loc[t].a] # None /\ DescendantOf(Heap, loc[t].a, loc[t].b))
           \in BOOLEAN
    /\ TraversalDone(t, "DescendantOf")

NextTraverse ==
    \/ \E t \in Threads, n \in Nodes, nm \in Names : WalkCall(t, n, nm)
    \/ \E t \in Threads : WalkLock(t)
    \/ \E t \in Threads : WalkBody(t)
    \/ \E t \in Threads, n \in Nodes : FullNameCall(t, n)
    \/ \E t \in Threads : FullNameLock(t)
    \/ \E t \in Threads : FullNameBody(t)
    \/ \E t \in Threads, n \in Nodes : MountRootCall(t, n)
    \/ \E t \in Threads : MountRootLock(t)
    \/ \E t \in Threads : MountRootBody(t)
    \/ \E t \in Threads, n \in Nodes : GetDotAttrsCall(t, n)
    \/ \E t \in Threads : GetDotAttrsBody(t)
    \/ \E t \in Threads, o \in Nodes, np \in Nodes, on \in Names, nn \in Names :
           RenameCall(t, o, on, np, nn)
    \/ \E t \in Threads : RenameLock(t)
    \/ \E t \in Threads : RenameDetach(t)
    \/ \E t \in Threads : RenameAttach(t)

SpecTraverse == InitLock /\ [][NextTraverse]_vars

\* ------------------------------------------------------------ RawTimer
\* One RawTimer and the timer store.  The caller calls Reset and Stop; the
\* store, when the timer it holds expires, calls Fire with the SeqNo the
\* timer was armed under.  Stop and Reset run under TIMER_STORE's lock and
\* the timer's lock; Fire holds the timer's lock for its test only and calls
\* Reset after it let go of it.
direntVars == <<Inode, Name, Parent, Children, mounted, alive, held, ext,
                store, fault, created, origin, ops, before, last, log>>

\* TimerStore::RemoveTimer(id): the store holds the timer no longer.
RemoveTimer(tm) == [tm EXCEPT !.armed = None]

\* TimerStore::ResetTimer(id, seqNo, delta): the store holds the timer, to
\* fire it with seqNo.
ResetTimer(tm, seqNo) == [tm EXCEPT !.armed = seqNo]

\* RawTimer::Reset(delta); ret is the value it returns.
Reset(tm, delta) ==
    IF delta = 0
    THEN IF tm.State # "Running" THEN [tm EXCEPT !.ret = FALSE]
         ELSE RemoveTimer([tm EXCEPT !.SeqNo = @ + 1, !.ret = TRUE])
    ELSE ResetTimer([tm EXCEPT !.State = "Running", !.SeqNo = @ + 1,
                               !.ret = FALSE], tm.SeqNo + 1)

\* RawTimer::Stop; was is the State it found, ret the value it returns.
Stop ==
    /\ timer' = [(IF timer.State = "Running" THEN RemoveTimer(timer)
                  ELSE timer)
                     EXCEPT !.State = "Stopped", !.was = timer.State,
                            !.ret = FALSE, !.stopped = TRUE, !.last = "Stop"]
    /\ UNCHANGED direntVars
    /\ UNCHANGED threadVars

\* The caller calls Reset.
CallerReset(delta) ==
    /\ timer.SeqNo < MaxSeqNo
    /\ timer' = [Reset(timer, delta) EXCEPT !.stopped = FALSE,
                                            !.last = "Reset"]
    /\ UNCHANGED direntVars
    /\ UNCHANGED threadVars

\* The timer expires in the store: the store takes it out and calls Fire.
Expire ==
    /\ timer.armed # None /\ timer.pc = "idle"
    /\ timer' = [RemoveTimer(timer) EXCEPT !.pc = "fire",
                                           !.fireSeq = timer.armed,
                                           !.last = "Expire"]
    /\ UNCHANGED direntVars
    /\ UNCHANGED threadVars

\* RawTimer::Fire, under the timer's lock: an out of date Fire returns, else
\* the State becomes Expired.
Fire ==
    /\ timer.pc = "fire"
    /\ timer' = IF timer.fireSeq # timer.SeqNo \/ timer.State # "Running"
                THEN [timer EXCEPT !.pc = "idle", !.last = "Fire"]
                ELSE [timer EXCEPT !.State = "Expired", !.pc = "timeout",
                                   !.last = "Fire"]
    /\ UNCHANGED direntVars
    /\ UNCHANGED threadVars

\* RawTimer::Fire, after the lock: timer.Timeout(), and Reset(delta) when
\* the notifier asks for another period.
FireTimeout(delta) ==
    /\ timer.pc = "timeout"
    /\ delta > 0 => timer.SeqNo < MaxSeqNo
    /\ timer' = [(IF delta > 0 THEN Reset(timer, delta) ELSE timer)
                     EXCEPT !.ret = timer.ret, !.pc = "idle",
                            !.last = "FireTimeout"]
    /\ UNCHANGED direntVars
    /\ UNCHANGED threadVars

NextTimer ==
    \/ Stop
    \/ \E delta \in 0..1 : CallerReset(delta)
    \/ Expire
    \/ Fire
    \/ \E delta \in 0..1 : FireTimeout(delta)

SpecTimer == InitLock /\ [][NextTimer]_vars

\* ------------------------------------------------------- properties
\* The result of the last call has not been taken yet.
Pending(op) == fault = "none" /\ last.op = op

Calls(what) == {i \in 1..Len(log) : log[i].kind = "call" /\ log[i].what = what}
Notifications == {i \in 1..Len(log) : log[i].kind = "notify"}

\* The nodes below d through live entries of the children maps, d included.
Below(h, d) ==
    LET down[i \in 0..MaxNodes] ==
            IF i = 0 THEN {d}
            ELSE down[i - 1] \cup
                 {c \in h.alive : \E q \in down[i - 1], k \in Names :
                                     h.Children[q][k] = c}
    IN  down[MaxNodes]

\* The nodes whose children map holds a live entry for n.
Holders(n) == {q \in alive : \E k \in Names : Children[q][k] = n}

\* The path of a node under a parent's path.
JoinPath(pp, nm) == IF pp = "/" THEN pp \o nm ELSE pp \o "/" \o nm

\* C3: a node Create returned stays the node its name resolves to, and a
\* second Create of the name fails with EEXIST, in every later state reached
\* without removing, renaming or mounting over the name, while the node is
\* still referenced.
CreatedNodeResolves ==
    \A c \in alive :
        (fault = "none" /\ last.op = "" /\ created[c] /\ (held[c] \/ ext[c])) =>
            /\ walk(Heap, Parent[c], RootNode, Name[c], BackendOk).node = c
            /\ Create(Heap, Parent[c], RootNode, Name[c], BackendOk,
                      FALSE).res = "EEXIST"

CreatedNodeWalked ==
    /\ Pending("Walk")
    /\ last.res = "Ok"
    /\ last.n1 \in Names
    /\ created[last.node]
    /\ before.Children[last.a][last.n1] = last.node

\* C4 as stated: after a successful same-parent Rename(p, old, p, new) the
\* parent has no live entry for old and a live one for new, Walk of old fails
\* with ENOENT, Walk of new returns the node old resolved to, named new.
RenameSameParent ==
    (Pending("Rename") /\ last.res = "Ok" /\ last.a = last.b
       /\ last.n1 # last.n2) =>
        /\ Children[last.a][last.n1] \notin alive
        /\ Children[last.a][last.n2] \in alive
        /\ walk(Heap, last.a, RootNode, last.n1, BackendOk).res = "ENOENT"
        /\ walk(Heap, last.a, RootNode, last.n2, BackendOk).node = last.node
        /\ walk(before, last.a, RootNode, last.n1, BackendOk).node = last.node
        /\ Name[last.node] = last.n2

\* C4, amended: the same, for a renamed node that is still referenced when
\* Rename returns.
RenameSameParentReferenced ==
    (Pending("Rename") /\ last.res = "Ok" /\ last.a = last.b
       /\ last.n1 # last.n2 /\ last.node \in alive) =>
        /\ Children[last.a][last.n1] \notin alive
        /\ Children[last.a][last.n2] \in alive
        /\ walk(Heap, last.a, RootNode, last.n1, BackendOk).res = "ENOENT"
        /\ walk(Heap, last.a, RootNode, last.n2, BackendOk).node = last.node
        /\ walk(before, last.a, RootNode, last.n1, BackendOk).node = last.node
        /\ Name[last.node] = last.n2

RenamedSameParent ==
    /\ Pending("Rename") /\ last.res = "Ok" /\ last.a = last.b
    /\ last.n1 # last.n2
    /\ held[last.node]
    /\ before.Children[last.a][last.n1] = last.node
    /\ Children[last.a][last.n2] = last.node

\* C5: Rename of a directory d into d itself or into a directory below d fails
\* with EINVAL, without a backend rename and without a change of any name,
\* parent link or children map.
RenameIntoDescendant ==
    LET d == GetCacheChild(before, last.a, last.n1)
    IN  (last.op = "Rename" /\ d # None /\ IsDir(before.Inode[d])
           /\ IsDir(before.Inode[last.b]) /\ last.b \in Below(before, d)) =>
            /\ last.res = "EINVAL"
            /\ Calls("Rename") = {}
            /\ Name = before.Name
            /\ Parent = before.Parent
            /\ Children = before.Children

RenamedIntoGrandchild ==
    /\ Pending("Rename") /\ last.res = "EINVAL"
    /\ Parent[last.b] # None
    /\ Parent[Parent[last.b]] # None
    /\ Children[last.a][last.n1] = Parent[Parent[last.b]]
    /\ Children[Parent[Parent[last.b]]][Name[Parent[last.b]]] = Parent[last.b]
    /\ Children[Parent[last.b]][Name[last.b]] = last.b

\* C6: UnMount of a mounted node with the node it was mounted over returns
\* Ok, puts that node back under its name in the parent's children map and
\* clears the mounted flag.
MountUnMountRoundTrip ==
    (last.op = "UnMount" /\ before.mounted[last.a]
       /\ before.origin[last.a] = last.b) =>
        /\ last.res = "Ok"
        /\ Children[Parent[last.b]][Name[last.b]] = last.b
        /\ ~mounted[last.a]

UnMountCalled ==
    /\ last.op = "UnMount"
    /\ before.mounted[last.a]
    /\ before.origin[last.a] = last.b
    /\ before.Parent[last.b] = before.Parent[last.a]

\* C7: RemoveDirectory of a name that resolves to a mounted directory fails
\* with EBUSY, without a backend remove, and the parent's entry for the name
\* stays as it was.
RemoveDirectoryOfMount ==
    LET v == GetCacheChild(before, last.a, last.n1)
    IN  (Pending("RemoveDirectory") /\ last.n1 \in Names /\ v # None
           /\ before.mounted[v] /\ IsDir(before.Inode[v])) =>
            /\ last.res = "EBUSY"
            /\ Calls("Remove") = {}
            /\ Children[last.a][last.n1] = v

RemovedDirectoryOfMount ==
    /\ Pending("RemoveDirectory") /\ last.res = "EBUSY"
    /\ last.n1 \in Names
    /\ before.Children[last.a][last.n1] = last.node
    /\ mounted[last.node]
    /\ store[Inode[last.node]] = NoEntries
    /\ store[Inode[origin[last.node]]] = NoEntries

\* C8: CreateHardLink fails with EXDEV when parent and target are on
\* different mount sources, with EPERM when they share one and the target
\* is a directory; either way without the backend's hard link and without a
\* notification, whether or not the name exists.
HardLinkRefused ==
    Pending("CreateHardLink") =>
        LET ms == MountSource(Inode[last.a]) = MountSource(Inode[last.b])
        IN  /\ ~ms => last.res = "EXDEV"
            /\ (ms /\ IsDir(Inode[last.b])) => last.res = "EPERM"
            /\ (~ms \/ IsDir(Inode[last.b])) =>
                   Calls("CreateHardLink") = {} /\ Notifications = {}

HardLinkAcrossMounts ==
    /\ Pending("CreateHardLink") /\ last.res = "EXDEV"
    /\ store[Inode[last.a]][last.n1] # None

\* C9: the full name of a node reachable from the root is the full name of
\* its parent, "/" and its own name (a child of the root: "/" and its name);
\* the root's is "/".
FullNameOfParent ==
    /\ fullName(Heap, RootNode, RootNode)[1] = "/"
    /\ \A n \in Below(Heap, RootNode) \ {RootNode} : \A q \in Holders(n) :
           fullName(Heap, n, RootNode)[1] =
               JoinPath(fullName(Heap, q, RootNode)[1], Name[n])

FullNameAfterMove ==
    /\ Pending("Rename") /\ last.res = "Ok" /\ last.a # last.b
    /\ last.node \in Below(Heap, RootNode)

\* C10: Walk of ".." from the root the caller names returns that root; from
\* any other directory it returns the node whose children map holds it.
WalkDotDot ==
    (Pending("Walk") /\ last.n1 = ".." /\ IsDir(Inode[last.a])) =>
        /\ last.a = last.b => last.res = "Ok" /\ last.node = last.a
        /\ last.a # last.b =>
               \A q \in Holders(last.a) : last.res = "Ok" /\ last.node = q

WalkedDotDot ==
    /\ Pending("Walk") /\ last.n1 = ".." /\ last.res = "Ok"
    /\ last.a # last.b
    /\ last.node \in Holders(last.a)

\* The node thread r renames is in neither children map: out of the old
\* parent's, renamed, not yet in the new parent's.
Torn(r) ==
    /\ pc[r] \in {"renameDetach", "renameAttach"}
    /\ loc[r].pin # None
    /\ Children[loc[r].a][loc[r].n1] # loc[r].pin
    /\ Children[loc[r].b][loc[r].n2] # loc[r].pin

\* C1: no walk runs (no thread is between Walk's lock and its unlock) while
\* the node of a Rename is in neither children map.
WalkSeesWholeRename ==
    \A t \in Threads, r \in Threads :
        pc[t] \in {"walk", "removeWalk"} => ~Torn(r)

WalkWaitsForRename ==
    \E t \in Threads, r \in Threads :
        /\ Torn(r)
        /\ pc[t] = "walkLock"
        /\ loc[t].a = loc[r].b /\ loc[t].n1 = loc[r].n2

\* C2: while a Rename holds RENAME, no other thread takes a step of a
\* Remove, Mount or Rename that calls the backend or touches a node's fields.
RenameExcludesMutations ==
    (wrlock # None /\ step.t # wrlock) =>
        step.what \notin {"Remove", "Mount", "Rename"}

MutationDuringRename ==
    /\ wrlock # None
    /\ pc[wrlock] = "renameAttach"
    /\ step.t # wrlock
    /\ step.what = "Remove"
\* C11: Walk of "" and of "." returns the node walked from, whatever kind of
\* node it is.
WalkSelf ==
    (Pending("Walk") /\ last.n1 \in {"", "."}) =>
        last.res = "Ok" /\ last.node = last.a

WalkedSelfOfFile ==
    /\ Pending("Walk") /\ last.n1 \in {"", "."}
    /\ ~IsDir(Inode[last.a])
    /\ last.res = "ENOTDIR"

\* The operations that make a name, and the one of them that answers
\* EADDRINUSE.
CreateFamily ==
    {"Create", "CreateDirectory", "CreateLink", "CreateFifo",
     "CreateHardLink", "Bind"}

\* C12: when the name already resolves under the parent, Create,
\* CreateDirectory, CreateLink, CreateFifo and CreateHardLink (past its own
\* checks) fail with EEXIST and Bind with EADDRINUSE, and the backend is not
\* asked to create anything.
CreateOfExistingName ==
    (/\ fault = "none" /\ last.op \in CreateFamily
     /\ walk(before, last.a, RootNode, last.n1, BackendOk).res = "Ok"
     /\ last.op = "CreateHardLink" =>
            hardLinkChecks(before, last.a, last.b) = "Ok") =>
        /\ last.res = IF last.op = "Bind" THEN "EADDRINUSE" ELSE "EEXIST"
        /\ Calls(last.op) = {}

CreatedExistingName ==
    /\ Pending("Bind") /\ last.res = "EADDRINUSE"
    /\ before.Children[last.a][last.n1] \notin before.alive
    /\ before.store[before.Inode[last.a]][last.n1] # None
    /\ Calls("Lookup") # {}

\* C13: the release of the last handle of a node that has a parent removes
\* the node's entry from the parent's children map, whatever the
\* interleaving: no children map keeps an entry of a destroyed node.
NoEntryOfDestroyedNode ==
    \A p \in alive, k \in Names : Children[p][k] # Expired

\* Two threads held the same node, each read a strong count of 2, and the
\* second release destroyed the node with its Parent still set.
BothOwnersReleased ==
    /\ step.what = "release"
    /\ \E p \in alive, k \in Names :
         /\ Children[p][k] = Expired
         /\ store[Inode[p]][k] # None
    /\ \A t \in Threads : loc[t].pin = None

\* C14: the destruction of a node removes only that node's own entry: when
\* a caller lets go of a node, every entry that referred to another node
\* which is still alive afterwards is still in its children map.
DropRemovesOwnEntryOnly ==
    Pending("Release") =>
        \A p \in alive, k \in Names :
            before.Children[p][k] \in alive =>
                Children[p][k] = before.Children[p][k]

\* The release destroyed the node and took the entry of a live node of the
\* same name out of the map of the destroyed node's Parent.
DropRemovedLiveEntry ==
    /\ Pending("Release") /\ last.a \notin alive
    /\ \E k \in Names :
         LET p == before.Parent[last.a]
             m == before.Children[p][k]
         IN  /\ k = before.Name[last.a]
             /\ m \in alive /\ m # last.a
             /\ Children[p][k] = None

\* C15: while the kernel runs, the strong parent links form a tree: the
\* parent of a node is alive, and no node is reached again by following
\* parent links from its parent.
ParentLinksFormTree ==
    fault = "none" =>
        \A n \in alive :
            Parent[n] # None =>
                /\ Parent[n] \in alive
                /\ n \notin Ancestors(Heap, Parent[n])

\* A directory was moved to another parent and the tree is two links deep.
TreeAfterRename ==
    /\ Pending("Rename") /\ last.res = "Ok" /\ last.a # last.b
    /\ \E n \in alive : Parent[n] # None /\ Parent[Parent[n]] # None

\* C16: Walk never hands out a stale node: whatever releases run
\* concurrently, the node a Walk for an ordinary name has just returned is
\* alive and attached, its Parent being the node walked from.
WalkReturnsAttached ==
    \A t \in Threads :
        (/\ fault = "none" /\ step.t = t /\ step.what = "walk"
         /\ pc[t] = "holding" /\ loc[t].n1 \in Names) =>
            /\ loc[t].pin \in alive
            /\ Parent[loc[t].pin] = loc[t].a

\* A Walk returned the cached node while another thread, which had read a
\* strong count of 1, was between taking its Parent and removing its entry.
WalkedDetachedNode ==
    \E t \in Threads, u \in Threads :
        /\ fault = "none" /\ step.t = t /\ step.what = "walk"
        /\ pc[t] = "holding" /\ loc[t].n1 \in Names
        /\ pc[u] = "dropRemove" /\ loc[u].pin = loc[t].pin
        /\ Parent[loc[t].pin] = None

\* The traversal a thread is in the middle of, and Rename's critical section.
Traversing(t) == pc[t] \in {"walk", "fullName", "mountRoot", "descendantOf"}
InRename(t) == pc[t] \in {"renameDetach", "renameAttach"}

\* C17: every traversal (Walk, FullName, MountRoot, DescendantOf) holds
\* RENAME in read mode while it traverses, none runs inside a Rename's
\* critical section, and only Rename holds RENAME in write mode.
TraversalsHoldReadLock ==
    /\ \A t \in Threads : Traversing(t) => t \in rdlock
    /\ \A t \in Threads, u \in Threads : ~(Traversing(t) /\ InRename(u))
    /\ wrlock # None => loc[wrlock].op = "Rename"

\* DescendantOf is about to follow the parent links with no lock held while
\* a Rename, in write mode, is between its removals and its insert.
DescendantOfDuringRename ==
    \E t \in Threads, u \in Threads :
        /\ pc[t] = "descendantOf" /\ t \notin rdlock
        /\ pc[u] = "renameAttach" /\ wrlock = u

\* C18: Stop returns true exactly when it found the timer Running, and the
\* State it leaves is Stopped.
StopReturnsWhetherStopped ==
    timer.last = "Stop" =>
        /\ timer.ret = (timer.was = "Running")
        /\ timer.State = "Stopped"

\* Stop found the timer Running, took it out of the store and returned false.
StopOfRunningReturnedFalse ==
    /\ timer.last = "Stop" /\ timer.was = "Running"
    /\ timer.ret = FALSE /\ timer.State = "Stopped" /\ timer.armed = None

\* C19: from the return of Stop to the caller's next Reset the timer is not
\* in the store and is not Running, whatever Fire runs concurrently.
StoppedStaysStopped ==
    timer.stopped => timer.armed = None /\ timer.State # "Running"

\* Stop ran between Fire's test and the Reset of a periodic timer: the timer
\* is Running and in the store again, with no Reset by the caller.
FireRearmedAfterStop ==
    /\ timer.stopped /\ timer.last = "FireTimeout"
    /\ timer.State = "Running" /\ timer.armed = timer.SeqNo

\* What a Rename that moved an entry has queued: after the insert into the
\* new parent's children map, moved-from for oldName on the old parent's
\* watch set and moved-to for newName on the new parent's, with one cookie
\* that is not 0, then move-self on the renamed node's watch set with
\* cookie 0; and no other notification.
RenameEvents ==
    LET ri == before.store[before.Inode[last.a]][last.n1]
        flag(ev) == IF IsDir(ri) THEN "IN_ISDIR|" \o ev ELSE ev
    IN  /\ Cardinality(Notifications) = 3
        /\ \E c \in 1..Len(log), i \in Notifications :
             /\ c < i /\ i + 2 <= Len(log)
             /\ log[c] = Ev("cache", "insert", last.b, last.n2, last.node)
             /\ log[i].y # 0
             /\ log[i] = Ev("notify", flag("IN_MOVED_FROM"),
                            before.Inode[last.a], last.n1, log[i].y)
             /\ log[i + 1] = Ev("notify", flag("IN_MOVED_TO"),
                                before.Inode[last.b], last.n2, log[i].y)
             /\ log[i + 2] = Ev("notify", "IN_MOVE_SELF", ri, "", 0)

\* C20: a successful Rename, between two parents or within one, queues
\* exactly moved-from, moved-to with the same fresh cookie, then move-self
\* with cookie 0, all after the children-map update.
RenameNotifies == (Pending("Rename") /\ last.res = "Ok") => RenameEvents

\* C20, for a Rename that is not the no-op on one name of one parent.
RenameThatMovesNotifies ==
    (/\ Pending("Rename") /\ last.res = "Ok"
     /\ ~(last.a = last.b /\ last.n1 = last.n2)) => RenameEvents

\* A directory was renamed to another name, and the three events are queued.
RenamedAndNotified ==
    /\ Pending("Rename") /\ last.res = "Ok" /\ last.n1 # last.n2
    /\ Cardinality(Notifications) = 3
    /\ \E i \in Notifications : log[i].what = "IN_ISDIR|IN_MOVED_TO"

\* A Rename between two parents returned Ok.
RenamedAcross == Pending("Rename") /\ last.res = "Ok" /\ last.a # last.b

RenameErrorLeavesCache ==
    (Pending("Rename") /\ last.res # "Ok") =>
        /\ Notifications = {}
        /\ \A n \in alive \cap before.alive :
               Name[n] = before.Name[n] /\ Parent[n] = before.Parent[n]
        /\ \A p \in alive, k \in Names :
               Children[p][k] \in alive =>
                   /\ Name[Children[p][k]] = k
                   /\ \/ Children[p][k] = before.Children[p][k]
                      \/ Children[p][k] \notin before.alive

\* The backend's rename failed after the cached destination was flushed and
\* its extended reference dropped.
RenameFailedInBackend ==
    /\ Pending("Rename") /\ last.res = "EIO" /\ last.be.opFails
    /\ Calls("Rename") # {}
    /\ before.Children[last.b][last.n2] \in before.alive
    /\ before.Children[last.a][last.n1] \in alive

\* The gates of the Rename that ran last, evaluated on the heap it began
\* with: the source and the destination as Rename resolves them, and whether
\* every gate before the source's (the destination's) mount check passes.
SrcOf == walk(before, last.a, RootNode, last.n1, last.be)
DstOf == walk(SrcOf.h, last.b, RootNode, last.n2, last.be)

\* What the children maps resolve: an expired entry counts as absent.
Cached(h) ==
    [p \in Nodes |-> [k \in Names |->
        IF h.Children[p][k] = Expired THEN None ELSE h.Children[p][k]]]

\* A mount boundary: a node with mounted set, or a node with no parent.
MountBoundary(h, n) == h.mounted[n] \/ h.Parent[n] = None

GatesPassToSource ==
    /\ Pending("Rename")
    /\ ~(last.a = last.b /\ last.n1 = last.n2)
    /\ last.a # last.b =>
           /\ ~CycleCheck(before, last.a, last.n1, last.b)
           /\ "permNew" \notin last.deny
    /\ "permOld" \notin last.deny
    /\ SrcOf.res = "Ok"
    /\ mayDelete(SrcOf.h, last.deny, "stickyOld", SrcOf.node) = "Ok"

GatesPassToLookup ==
    /\ GatesPassToSource
    /\ ~MountBoundary(SrcOf.h, SrcOf.node)
    /\ last.a # last.b => ~DescendantOf(SrcOf.h, last.b, SrcOf.node)
    /\ IsDir(SrcOf.h.Inode[SrcOf.node]) => "permRenamed" \notin last.deny

GatesPassToDestination ==
    /\ GatesPassToLookup
    /\ DstOf.res = "Ok"
    /\ mayDelete(DstOf.h, last.deny, "stickyNew", DstOf.node) = "Ok"

\* C23: when the renamed node, or a node at the destination name, is a
\* mount boundary and every earlier gate passes, Rename fails with EBUSY,
\* the backend's rename is not called, and the names and what the children
\* maps resolve are as they were.
RenameOfMountBoundary ==
    (\/ GatesPassToSource /\ MountBoundary(SrcOf.h, SrcOf.node)
     \/ GatesPassToDestination /\ MountBoundary(DstOf.h, DstOf.node)) =>
        /\ last.res = "EBUSY"
        /\ Calls("Rename") = {}
        /\ Name = before.Name /\ Cached(Heap) = Cached(before)

\* A node was to be renamed over a mounted node: EBUSY.
RenamedOverMountBoundary ==
    /\ GatesPassToDestination /\ DstOf.h.mounted[DstOf.node]
    /\ last.res = "EBUSY"

\* The backend's rename was called, with this overwrite flag and no other.
RenameCalledWith(exist) ==
    /\ Calls("Rename") # {}
    /\ \A i \in Calls("Rename") : log[i].y = exist

\* C24: with a node at the destination, a directory over a non-directory
\* fails with ENOTDIR and a non-directory over a directory with EISDIR,
\* the destination untouched; when they match the destination's extended
\* reference is dropped and the backend is called with overwrite set.  With
\* no node at the destination (ENOENT) the backend is called with overwrite
\* unset, and any other error of the lookup is the result.
RenameOverDestination ==
    LET src == SrcOf.h.Inode[SrcOf.node]
        dst == DstOf.h.Inode[DstOf.node]
    IN  /\ (GatesPassToLookup /\ DstOf.res = "ENOENT") => RenameCalledWith(0)
        /\ (GatesPassToLookup /\ DstOf.res \notin {"Ok", "ENOENT"}) =>
               last.res = DstOf.res /\ Calls("Rename") = {}
        /\ (GatesPassToDestination /\ ~MountBoundary(DstOf.h, DstOf.node)) =>
               IF IsDir(src) /\ ~IsDir(dst)
               THEN /\ last.res = "ENOTDIR" /\ Calls("Rename") = {}
                    /\ ext = before.ext /\ Cached(Heap) = Cached(before)
               ELSE IF ~IsDir(src) /\ IsDir(dst)
               THEN /\ last.res = "EISDIR" /\ Calls("Rename") = {}
                    /\ ext = before.ext /\ Cached(Heap) = Cached(before)
               ELSE /\ RenameCalledWith(1)
                    /\ DstOf.node \in alive => ~ext[DstOf.node]

\* A directory was renamed over a cached file that had an extended
\* reference: ENOTDIR, and the file keeps it.
RenamedDirectoryOverFile ==
    /\ GatesPassToDestination /\ last.res = "ENOTDIR"
    /\ before.ext[DstOf.node] /\ ext[DstOf.node]

\* The error of the first gate of the pending Rename that fails on the heap
\* the call began with, in the order of the steps, or "pass" when none does.
FirstFailingGate ==
    LET cross == last.a # last.b
        src == SrcOf.node
        dst == DstOf.node
    IN  IF cross /\ CycleCheck(before, last.a, last.n1, last.b) THEN "EINVAL"
        ELSE IF "permOld" \in last.deny THEN "EACCES"
        ELSE IF cross /\ "permNew" \in last.deny THEN "EACCES"
        ELSE IF SrcOf.res # "Ok" THEN SrcOf.res
        ELSE IF "stickyOld" \in last.deny THEN "EPERM"
        ELSE IF SrcOf.h.Parent[src] = None THEN "EBUSY"
        ELSE IF SrcOf.h.mounted[src] THEN "EBUSY"
        ELSE IF cross /\ DescendantOf(SrcOf.h, last.b, src) THEN "EINVAL"
        ELSE IF IsDir(SrcOf.h.Inode[src]) /\ "permRenamed" \in last.deny
        THEN "EACCES"
        ELSE IF DstOf.res = "ENOENT" THEN "pass"
        ELSE IF DstOf.res # "Ok" THEN DstOf.res
        ELSE IF "stickyNew" \in last.deny THEN "EPERM"
        ELSE IF MountBoundary(DstOf.h, dst) THEN "EBUSY"
        ELSE IF IsDir(SrcOf.h.Inode[src]) /\ ~IsDir(DstOf.h.Inode[dst])
        THEN "ENOTDIR"
        ELSE IF ~IsDir(SrcOf.h.Inode[src]) /\ IsDir(DstOf.h.Inode[dst])
        THEN "EISDIR"
        ELSE "pass"

\* C25: the gates of Rename are evaluated in the order of the steps: the
\* first gate that fails decides the result, whatever the later gates would
\* say, and the backend's rename is called only when every gate passes.
RenameGatesInOrder ==
    (Pending("Rename") /\ ~(last.a = last.b /\ last.n1 = last.n2)) =>
        /\ FirstFailingGate # "pass" =>
               last.res = FirstFailingGate /\ Calls("Rename") = {}
        /\ FirstFailingGate = "pass" => Calls("Rename") # {}

\* The sticky check on the source and the mount-boundary test both fail,
\* as does every later permission check: the result is the sticky check's.
RenameDeniedOnMounted ==
    /\ Pending("Rename") /\ SrcOf.res = "Ok"
    /\ FirstFailingGate = "EPERM" /\ last.res = "EPERM"
    /\ "permOld" \notin last.deny /\ "stickyOld" \in last.deny
    /\ SrcOf.h.mounted[SrcOf.node]

\* The victim of the pending Remove or RemoveDirectory: what the name
\* resolves to on the heap the call began with.
VictimOf == walk(before, last.a, RootNode, last.n1, BackendOk)
VictimIsDir == IsDir(VictimOf.h.Inode[VictimOf.node])

\* The pending call refused with res: the backend's remove was not called,
\* and what the children maps resolve and the extended references are as
\* they were.
Refused(res) ==
    /\ last.res = res /\ Calls("Remove") = {}
    /\ Cached(Heap) = Cached(before) /\ ext = before.ext

\* What Remove and RemoveDirectory refuse whether or not the victim is a
\* mount boundary.
RefusedByKind ==
    /\ (Pending("Remove") /\ VictimOf.res = "Ok" /\ VictimIsDir) =>
           Refused("EISDIR")
    /\ (Pending("RemoveDirectory") /\ last.n1 = ".") => Refused("EINVAL")
    /\ (Pending("RemoveDirectory") /\ last.n1 = "..") => Refused("ENOTEMPTY")
    /\ (Pending("RemoveDirectory") /\ last.n1 \notin {".", ".."}
           /\ VictimOf.res = "Ok" /\ ~VictimIsDir) => Refused("ENOTDIR")

\* C26 as stated: Remove of a directory is refused with EISDIR,
\* RemoveDirectory of "." with EINVAL, of ".." with ENOTEMPTY and of a
\* victim that is not a directory with ENOTDIR, and Remove of a mount
\* boundary is refused with EBUSY; the backend's remove is not called and
\* children maps and extended references are unchanged.
RemoveRefusals ==
    /\ RefusedByKind
    /\ (Pending("Remove") /\ VictimOf.res = "Ok"
           /\ MountBoundary(VictimOf.h, VictimOf.node)) => Refused("EBUSY")

\* C26: as above, with EBUSY for Remove only when the mount boundary is
\* not a directory and the path did not name a directory: otherwise the
\* result is EISDIR.
RemoveRefusalsByKindFirst ==
    /\ RefusedByKind
    /\ (Pending("Remove") /\ VictimOf.res = "Ok" /\ ~VictimIsDir
           /\ ~last.dirPath /\ MountBoundary(VictimOf.h, VictimOf.node)) =>
           Refused("EBUSY")

\* Remove was called on a file mounted over a file.
RemovedMountedFile ==
    /\ Pending("Remove") /\ VictimOf.res = "Ok" /\ ~VictimIsDir
    /\ ~last.dirPath /\ VictimOf.h.mounted[VictimOf.node]
    /\ last.res = "EBUSY"

\* The positions of the log at which the pending operation did this.
At(kind, what) ==
    {i \in 1..Len(log) : log[i].kind = kind /\ log[i].what = what}

\* The steps of a successful Remove up to the release of the extended
\* reference: the backend's remove, the cache entry, the reference.
RemoveReleasesInOrder ==
    (Pending("Remove") /\ last.res = "Ok") =>
        \E i \in Calls("Remove"), j \in At("cache", "remove"),
           k \in At("unpin", "DropExtendedReference") :
            /\ i < j /\ j < k
            /\ before.Children[last.a][last.n1] = last.node =>
                   Children[last.a][last.n1] = None
            /\ ~ext[last.node]

\* The backend's remove failed: cache, extended references and watch sets
\* are as they were.
RemoveFailureLeavesCache ==
    (Pending("Remove") /\ Calls("Remove") # {} /\ last.res # "Ok") =>
        /\ Cached(Heap) = Cached(before) /\ ext = before.ext
        /\ Notifications = {}

\* C27: a successful Remove of a file calls the backend's remove, then
\* drops the parent's cache entry, then releases the victim's extended
\* reference, and notifies the parent's watch set of the delete before it
\* drops the victim; when the backend's remove fails the cache entry and
\* the extended reference are untouched and nothing is notified.
RemoveNotifiesBeforeDrop ==
    /\ RemoveReleasesInOrder
    /\ RemoveFailureLeavesCache
    /\ (Pending("Remove") /\ last.res = "Ok") =>
           \E n \in At("notify", "IN_DELETE"), d \in At("drop", "child") :
               /\ log[n].x = before.Inode[last.a] /\ log[d].x = last.node
               /\ n < d

\* A Remove succeeded on a victim nobody else held: the victim was
\* destroyed by the drop, and the parent's watch set was notified of the
\* delete after that.
RemovedDroppedThenNotified ==
    /\ Pending("Remove") /\ last.res = "Ok" /\ last.node \notin alive
    /\ \E n \in At("notify", "IN_DELETE"), d \in At("drop", "child") :
           /\ log[n].x = before.Inode[last.a] /\ log[d].x = last.node
           /\ d < n

\* The victim of the pending MayDelete.
DeleteVictim == walk(before, last.a, RootNode, last.n1, last.be)

\* The result of the pending MayDelete when its sticky check allows if and
\* only if allowed holds.
MayDeleteResultIs(allowed) ==
    IF ~last.cr.perm THEN last.res \notin {"Ok", "EPERM", "EBUSY"}
    ELSE IF DeleteVictim.res # "Ok" THEN last.res = DeleteVictim.res
    ELSE IF ~allowed THEN last.res = "EPERM"
    ELSE IF DeleteVictim.h.Parent[DeleteVictim.node] = None
    THEN last.res = "EBUSY"
    ELSE last.res = "Ok"

WalkAfterMount ==
    walk(Heap, before.Parent[last.a], RootNode, before.Name[last.a],
         BackendOk)

\* C29: Mount on a node d that has a parent fails with ENOENT and changes
\* nothing when the inode is a symbolic link; otherwise it returns a new
\* node m with the name and the parent of d, the inode given and the
\* mounted flag set, Walk from d's parent with d's name then returns m, and
\* d is what it was and still held.
MountReplacesInWalk ==
    (Pending("Mount") /\ before.Parent[last.a] # None) =>
        IF IsSymlink(last.b)
        THEN last.res = "ENOENT" /\ Heap = [before EXCEPT !.log = log]
        ELSE LET d == last.a
                 m == last.node
             IN  /\ last.res = "Ok"
                 /\ m \notin before.alive /\ m \in alive /\ m # d
                 /\ Name[m] = before.Name[d] /\ Inode[m] = last.b
                 /\ mounted[m] /\ Parent[m] = before.Parent[d]
                 /\ WalkAfterMount.res = "Ok" /\ WalkAfterMount.node = m
                 /\ d \in alive /\ held[d]
                 /\ Inode[d] = before.Inode[d] /\ Name[d] = before.Name[d]
                 /\ Parent[d] = before.Parent[d]
                 /\ mounted[d] = before.mounted[d]
                 /\ Children[d] = before.Children[d]

\* Mount was called on a node that Walk returned for its name, and Walk
\* returns the mounted node for that name now.
MountedOverCachedNode ==
    /\ Pending("Mount") /\ last.res = "Ok" /\ before.Parent[last.a] # None
    /\ before.Children[before.Parent[last.a]][before.Name[last.a]] = last.a
    /\ WalkAfterMount.node = last.node /\ mounted[last.node]

\* The chain of Parent links from the node MountRoot was called on: the
\* node itself, its parent, and so on (None past the end).
ChainOfMountRoot ==
    LET up[i \in 0..MaxNodes] ==
            IF i = 0 THEN last.a
            ELSE IF up[i - 1] = None THEN None ELSE Parent[up[i - 1]]
    IN  up

\* C30: MountRoot(n) returns the first node on the chain of Parent links
\* from n, n included, that is mounted, or the node with no parent at the
\* end of the chain when none is: no node before the result on the chain
\* is mounted.
MountRootIsNearest ==
    Pending("MountRoot") =>
        \E i \in 0..MaxNodes :
            /\ ChainOfMountRoot[i] = last.node /\ last.node # None
            /\ \A j \in 0..(i - 1) : ~mounted[ChainOfMountRoot[j]]
            /\ mounted[last.node] \/ Parent[last.node] = None

\* MountRoot was called below a mounted node that itself lies below
\* another node, and returned the mounted node.
MountRootBelowMount ==
    /\ Pending("MountRoot") /\ last.node # last.a
    /\ mounted[last.node] /\ Parent[last.node] # None

\* The backend action of the pending create-family operation was invoked.
BackendActionInvoked == fault = "none" /\ Calls(last.op) # {}

\* The operations of ops that invoked their backend action left no entry
\* under the name in the parent's children map.
NoEntryAfter(opsOf) ==
    (last.op \in opsOf /\ BackendActionInvoked) =>
        Cached(Heap)[last.a][last.n1] = None

\* A successful Create left the node it returned under the name.
CreateInserts ==
    (Pending("Create") /\ last.res = "Ok") =>
        Children[last.a][last.n1] = last.node

\* C31: CreateDirectory, CreateLink, CreateHardLink, CreateFifo and Bind,
\* once past the EEXIST check and with the backend action invoked, return
\* with no entry for the name in the parent's children map, whether the
\* backend succeeded or failed; only Create leaves the node it made there.
CreateVariantsEvict ==
    /\ NoEntryAfter({"CreateDirectory", "CreateLink", "CreateHardLink",
                     "CreateFifo", "Bind"})
    /\ CreateInserts

\* The same for the four operations that are not Bind.
CreateVariantsButBindEvict ==
    /\ NoEntryAfter({"CreateDirectory", "CreateLink", "CreateHardLink",
                     "CreateFifo"})
    /\ CreateInserts

\* Bind returned with a live node cached under the name, kept by its
\* extended reference, that is not the node Bind returned.
BindLeftEntry ==
    /\ Pending("Bind") /\ last.res = "Ok"
    /\ Children[last.a][last.n1] \in alive
    /\ ext[Children[last.a][last.n1]]
    /\ Children[last.a][last.n1] # last.node

\* The creation events the pending operation sent for its name to the watch
\* set of its parent's inode.
CreationEvents ==
    {n \in Notifications :
        /\ log[n].what \in {"IN_CREATE", "IN_ISDIR|IN_CREATE"}
        /\ log[n].x = before.Inode[last.a] /\ log[n].nm = last.n1}

\* The object the pending operation made is a directory.
MadeDirectory == IsDir(store[before.Inode[last.a]][last.n1])

\* C32: every successful Create, CreateDirectory, CreateLink,
\* CreateHardLink, CreateFifo and Bind notifies the watch set of the
\* parent's inode of the creation of the name, after the backend action,
\* with IN_ISDIR exactly when the object made is a directory.
CreateNotifies ==
    (fault = "none" /\ last.op \in CreateFamily /\ last.res = "Ok") =>
        /\ CreationEvents # {}
        /\ \A n \in CreationEvents :
               /\ \E c \in Calls(last.op) : c < n
               /\ log[n].what = "IN_ISDIR|IN_CREATE" <=> MadeDirectory

\* A directory was made and its creation notified with IN_ISDIR.
CreatedDirectoryNotified ==
    /\ Pending("CreateDirectory") /\ last.res = "Ok" /\ MadeDirectory
    /\ \E n \in CreationEvents : log[n].what = "IN_ISDIR|IN_CREATE"

\* The pending Walk missed the cache: an ordinary name under a directory
\* whose children map had no live entry for it.
WalkMissed ==
    /\ Pending("Walk") /\ last.n1 \in Names /\ IsDir(before.Inode[last.a])
    /\ before.Children[last.a][last.n1] \notin before.alive

\* Walk of the same name from the same node, right after the pending one.
WalkAgain ==
    walk([Heap EXCEPT !.log = <<>>], last.a, RootNode, last.n1, BackendOk)

\* C33: on a cache miss Walk calls the backend's lookup once.  When it
\* succeeds the node found is in the start node's children map under the
\* name, with the start node as parent, and a Walk repeated at once
\* returns the same node without a lookup; when it fails the backend's
\* error is the result and the map has no entry for the name.
WalkMissCaches ==
    WalkMissed =>
        /\ Cardinality(Calls("Lookup")) = 1
        /\ IF last.res = "Ok"
           THEN /\ Children[last.a][last.n1] = last.node
                /\ Parent[last.node] = last.a /\ Name[last.node] = last.n1
                /\ Inode[last.node] = store[before.Inode[last.a]][last.n1]
                /\ WalkAgain.res = "Ok" /\ WalkAgain.node = last.node
                /\ WalkAgain.h.log = <<>>
           ELSE /\ last.res \in {"ENOENT", "EIO"}
                /\ last.res = "ENOENT" =>
                       store[before.Inode[last.a]][last.n1] = None
                /\ Children[last.a][last.n1] = None

\* A Walk found an expired entry under the name, asked the backend and
\* cached the node it got.
WalkedPastExpired ==
    /\ WalkMissed /\ before.Children[last.a][last.n1] = Expired
    /\ last.res = "Ok" /\ Children[last.a][last.n1] = last.node

\* The node locks the pending operation took with a node lock in hand.
LockEvents == {i \in 1..Len(log) : log[i].kind = "lock"}

\* C34: node locks are taken parent before child: no operation takes the
\* lock of a node while it holds the lock of that node or of a node below
\* it, so that no operation waits for a lock it holds itself.
NodeLocksParentFirst ==
    /\ fault # "deadlock"
    /\ \A i \in LockEvents :
           /\ log[i].x # log[i].y
           /\ log[i].x \notin Above(before, log[i].y, MaxNodes)

\* flush of a node freed a child whose Parent was a directory that only
\* the child kept alive; the drop of that directory locked the flushed
\* node again.
FlushRelockedNode ==
    /\ last.op = "flush" /\ fault = "deadlock"
    /\ \E i \in LockEvents : log[i].x = last.a /\ log[i].y = last.a

\* The calls into the mount source's reference policy that the pending
\* operation made with the lock of node log[i].y in hand.
PolicyCallsUnderLock ==
    {i \in 1..Len(log) : log[i].kind = "policy" /\ log[i].y # None}

\* C35: a node lock is held for one read or write of the node's fields
\* only: no operation calls the mount source's reference policy, or runs
\* an operation of another node, while it holds a node lock.
NodeLockCoversFieldAccessOnly ==
    PolicyCallsUnderLock = {} /\ LockEvents = {}

\* A Rename of a directory with a live child flushed the directory: it
\* flushed the child and dropped the child's extended reference with the
\* directory's lock in hand.
RenameFlushedUnderLock ==
    /\ Pending("Rename") /\ last.res = "Ok"
    /\ \E i \in PolicyCallsUnderLock, j \in LockEvents :
           /\ j < i /\ log[i].x = log[j].x /\ log[i].y = log[j].y
           /\ log[i].y = before.Children[last.a][last.n1]
           /\ \E k \in Names : before.Children[log[i].y][k] = log[i].x

\* The live nodes below n in heap h: those that flush of n visits through
\* the children maps.
RECURSIVE Under(_, _, _)
Under(h, n, fuel) ==
    IF fuel = 0 THEN {}
    ELSE LET cs == {h.Children[n][k] : k \in Names} \cap h.alive
         IN  cs \cup UNION {Under(h, c, fuel - 1) : c \in cs}

\* No expired entry in the map of the flushed node or of a node below it.
NoExpiredUnder(h, n) ==
    \A d \in {n} \cup Under(h, n, MaxNodes), k \in Names :
        h.Children[d][k] # Expired

\* No node that the flush visited keeps its extended reference.
VisitedDropped == \A d \in Under(before, last.a, MaxNodes) : ~ext[d]

LinkageConsistent ==
    fault = "none" =>
        \A p \in alive, k \in Names :
            Children[p][k] \in alive =>
                Parent[Children[p][k]] = p /\ Name[Children[p][k]] = k

\* Rename(/a, a, /, b) moved the held directory /a/a to the root: it is
\* entered in the root's map under "b" and its Parent is still /a.
RenamedKeepsOldParent ==
    /\ Pending("Rename") /\ last.res = "Ok" /\ last.a # last.b
    /\ Inode = MovedTree.Inode /\ Name = MovedTree.Name
    /\ Parent = MovedTree.Parent /\ Children = MovedTree.Children
    /\ alive = MovedTree.alive /\ held = MovedTree.held
    /\ store = MovedTree.store
    /\ \A n \in Nodes : ~ext[n] /\ ~mounted[n]
    /\ Children[last.b][last.n2] = 3 /\ Parent[3] = last.a

\* Two threads hold the dirents their Walks of the same name under the
\* same node returned.
BothHold(t, u) ==
    /\ t # u /\ pc[t] = "holding" /\ pc[u] = "holding"
    /\ loc[t].a = loc[u].a /\ loc[t].n1 = loc[u].n1 /\ loc[t].n1 \in Names

\* C38: a name has one live cached node per parent: two Walks of the same
\* name under the same node return the same dirent, and when one caller
\* has destroyed its reference the node the other caller holds is still
\* the one entered under the name.
WalksShareNode ==
    \A t \in Threads, u \in Threads :
        /\ BothHold(t, u) => loc[t].pin = loc[u].pin
        /\ (/\ t # u /\ pc[t] = "holding" /\ loc[t].n1 \in Names
            /\ step = [t |-> u, what |-> "release"])
               => Children[loc[t].a][loc[t].n1] = loc[t].pin

\* Two Walks that both missed the cache returned two live nodes of the
\* same inode for the same name; the map holds the one inserted last.
WalksReturnedTwoNodes ==
    \E t \in Threads, u \in Threads :
        /\ BothHold(t, u) /\ loc[t].pin # loc[u].pin
        /\ {loc[t].pin, loc[u].pin} \subseteq alive
        /\ Inode[loc[t].pin] = Inode[loc[u].pin]
        /\ Parent[loc[t].pin] = loc[t].a /\ Parent[loc[u].pin] = loc[t].a
        /\ Children[loc[t].a][loc[t].n1] = loc[u].pin

\* The pending create-family operation returned an error.
CreateFailed(opsOf) ==
    fault = "none" /\ last.op \in opsOf /\ last.res # "Ok"

\* C39: a create-family operation that returns an error notifies no
\* watch set, whether the error comes from the checks or from the backend
\* action.
CreateFailureNotifiesNothing ==
    CreateFailed(CreateFamily) => Notifications = {}

\* The same for the operations other than CreateDirectory.
CreateFailureButDirectoryNotifiesNothing ==
    CreateFailed(CreateFamily \ {"CreateDirectory"}) => Notifications = {}

\* The backend refused to make the directory and CreateDirectory, which
\* returns the error, notified the parent's watches of the creation.
CreateDirectoryFailedNotified ==
    /\ CreateFailed({"CreateDirectory"}) /\ Calls("CreateDirectory") # {}
    /\ store[before.Inode[last.a]][last.n1] = None
    /\ \E n \in CreationEvents :
           /\ log[n].what = "IN_ISDIR|IN_CREATE"
           /\ \E c \in Calls("CreateDirectory") : c < n

\* Thread t is in InotifyEvent, at or after the read of the parent and
\* before the notification of the node's own watches is done.
Notifying(t) == pc[t] \in {"inotifyParent", "inotifyName", "inotifySelf"}

\* C40: InotifyEvent holds RENAME in read mode from before it reads the
\* node's parent and name until both notifications are issued, so that no
\* Rename runs between the reads and the notifications.
InotifyHoldsReadLock ==
    \A t \in Threads :
        Notifying(t) => t \in rdlock /\ wrlock = None

\* InotifyEvent has read the node's parent and not yet its name, without
\* the lock, while a Rename that holds RENAME in write mode has given the
\* node its new name.
InotifyDuringRename ==
    \E t \in Threads, u \in Threads :
        /\ pc[t] = "inotifyName" /\ t \notin rdlock
        /\ wrlock = u /\ pc[u] = "renameAttach"
        /\ loc[u].pin = loc[t].a /\ loc[t].b = loc[u].a
        /\ Name[loc[t].a] = loc[u].n2 /\ loc[u].n1 # loc[u].n2

====
